---- MODULE Spec2Model ----
(***************************************************************************)
(* Model of tstamp::Queue (src/utils/TStamp.cxx): the timestamp-ordered    *)
(* coincidence queue with its Push, Pop and Flush operations and the       *)
(* HandleSingle / HandleCoinc callbacks.                                   *)
(*                                                                         *)
(* The container's ordering (midas::Event comparison), IsFull and the      *)
(* constructor arguments live in headers that are not part of the source   *)
(* tree at hand; they are modelled from the written specification          *)
(* (section 4.1).                                                          *)
(*                                                                         *)
(* A second specification, SpecEvents, models rootana::EventHandler        *)
(* (src/rootana/Events.cxx) with the head record of src/gamma/Gamma.cxx    *)
(* and the module records of src/Modules.cxx.                              *)
(*                                                                         *)
(* SpecKin models dragon::Kin2Body (src/utils/Kin2Body.cxx) and SpecXml    *)
(* the reader of ODB dumps, midas::Xml (src/midas/Xml.cxx).                *)
(***************************************************************************)
EXTENDS Integers, Sequences, FiniteSets, TLC

\* ----------------------------------------------------------------- bounds
MaxOps == 3         \* number of operations (Push, Pop, Flush) in one behaviour
MaxTime == 3        \* trigger times are drawn from 0..MaxTime
MaxFaults == 1      \* operations that end in an exception or see insert fail
NumCh == 2          \* channels of one ADC / TDC module record
MaxCalls == 2       \* number of calls on a kinematics, detector or scaler object
MaxEnergy == 2      \* beam energies are drawn from 0..MaxEnergy
MaxPad == 1         \* characters before, between and after the tags of a dump

\* ------------------------------------------------------ program constants
DRAGON_HEAD_EVENT == 1
DRAGON_TAIL_EVENT == 3
fCoincWindow == 1   \* W: coincidence window, in ticks
fMaxDelta == 1      \* T: maximum buffered time span, in ticks
MAX_TYPES == 4      \* tstamp::Diagnostics::MAX_TYPES: length of n_singles

Ids == {DRAGON_HEAD_EVENT, DRAGON_TAIL_EVENT}
Times == 0..MaxTime

VARIABLES
  fEvents,   \* the buffer: sequence of events, front = *fEvents.begin()
  singles,   \* history of HandleSingle invocations
  coincs,    \* history of HandleCoinc invocations
  pushed,    \* set of events that entered the buffer
  timedout,  \* set of events cleared by a Flush that had a deadline
  npush,     \* number of Push calls made (source of event serials)
  npop,      \* number of Pop calls made on a non-empty buffer
  nfault,    \* number of operations that saw an exception
  nops,      \* number of operations made
  last,      \* summary of the most recent operation
  diag,      \* the caller's tstamp::Diagnostics object
  gHead,     \* rootana::gHead, the head record
  gTail,     \* rootana::gTail, the tail record
  gCoinc,    \* rootana::gCoinc, the coincidence record
  fHistos,   \* EventHandler::fHistos: event id -> list of histograms
  hists,     \* the histogram objects created so far
  nev,       \* number of EventHandler operations made
  elast,     \* summary of the most recent EventHandler operation
  pc,        \* where a Flush run step by step stands: "idle" or "loop"
  flmax,     \* the max_time of that Flush
  kin,       \* a dragon::Kin2Body object
  nkin,      \* number of Set4Mom calls made
  klast,     \* summary of the most recent Set4Mom call
  dbgo,      \* a dragon::Bgo detector record
  scaler,    \* a dragon::Scaler record
  periods,   \* the counts of the scaler events unpacked since the last reset
  ndet,      \* number of detector operations made
  dlast,     \* summary of the most recent detector operation
  xml,       \* a midas::Xml object and what its last operation returned
  nxml,      \* number of operations made on the Xml object
  xlast      \* summary of the most recent Xml operation

qvars == <<fEvents, singles, coincs, pushed, timedout, npush, npop, nfault, nops, last,
          diag>>
evvars == <<gHead, gTail, gCoinc, fHistos, hists, nev, elast>>
fvars == <<pc, flmax>>
kvars == <<kin, nkin, klast>>
dvars == <<dbgo, scaler, periods, ndet, dlast>>
xvars == <<xml, nxml, xlast>>
vars == <<qvars, evvars, fvars, kvars, dvars, xvars>>

\* ---------------------------------------------------------------- helpers
Range(s) == {s[i] : i \in 1..Len(s)}
Abs(x) == IF x < 0 THEN -x ELSE x
SetMax(S) == CHOOSE x \in S : \A y \in S : y <= x
SetMin(S) == CHOOSE x \in S : \A y \in S : x <= y

\* midas::Event::TimeDiff: trigger time of a minus trigger time of b
TimeDiff(a, b) == a.t - b.t

\* std::multiset::insert under the trigger-time ordering: the buffer stays
\* sorted by trigger time, an event goes behind those of equal time.
InsertPos(ev, e) == Cardinality({i \in 1..Len(ev) : ev[i].t <= e.t})
Insert(ev, e) ==
  LET p == InsertPos(ev, e) IN
  SubSeq(ev, 1, p) \o <<e>> \o SubSeq(ev, p + 1, Len(ev))

\* fEvents.equal_range(*fEvents.begin()): the maximal prefix of the buffer
\* whose trigger times lie within the coincidence window of the front.
\* The result is the index of the last element of the range.
EqualRange(ev) ==
  CHOOSE k \in 1..Len(ev) :
    /\ \A i \in 1..k : Abs(TimeDiff(ev[i], ev[1])) <= fCoincWindow
    /\ (k = Len(ev) \/ Abs(TimeDiff(ev[k + 1], ev[1])) > fCoincWindow)

\* buffered time span: latest minus earliest buffered trigger time
Span(ev) ==
  IF ev = <<>> THEN 0
  ELSE SetMax({ev[i].t : i \in 1..Len(ev)}) - SetMin({ev[i].t : i \in 1..Len(ev)})

\* tstamp::Queue::IsFull: the buffered span exceeds the maximum
IsFull(ev) == Span(ev) > fMaxDelta

\* tstamp::Queue::Size
Size(ev) == Len(ev)

\* -------------------------------------------------- the running operation
\* The state an operation works on: the queue, the callback histories and
\* the bookkeeping of the operation in progress.
\*   calls    callback invocations made so far by this operation
\*   threw    an exception is propagating
\*   cb       the exception came from a callback
\*   victim   the front event of the Pop the exception came from
\*   msgs     FlushTimeoutMessage calls made by this operation
\*   dropped  events removed by fEvents.clear() in this operation
\*   inserts  fEvents.insert attempts made by this operation
\*   diagnostics  the diagnostics argument is not NULL
\*   d        the fields of the diagnostics object
\*   warns    out-of-range warnings issued by FillDiagnostics
\*   oob      writes made past the end of n_singles
Begin ==
  [fEvents |-> fEvents, singles |-> singles, coincs |-> coincs,
   timedout |-> timedout, npush |-> npush, npop |-> npop,
   calls |-> 0, threw |-> FALSE, cb |-> FALSE, victim |-> <<>>,
   msgs |-> 0, dropped |-> {}, inserts |-> 0,
   singles_id |-> -1, found_coinc |-> FALSE,
   diagnostics |-> FALSE, d |-> diag, warns |-> 0, oob |-> 0]

\* tstamp::Diagnostics::reset: all fields zero
DiagnosticsReset ==
  [size |-> 0, n_coinc |-> 0, time_diff |-> 0,
   n_singles |-> [i \in 0..(MAX_TYPES - 1) |-> 0]]

\* the store d->n_singles[i] += 1: inside the array it adds one to the
\* counter, outside it writes past the array
IncrSingles(m, i) ==
  IF i \in DOMAIN m.d.n_singles
  THEN [m EXCEPT !.d.n_singles[i] = @ + 1]
  ELSE [m EXCEPT !.oob = @ + 1]

\* FillDiagnostics without the test of singles_id against MAX_TYPES
FillDiagnosticsUnchecked(m, tdiff, have_coinc, singles_id) ==
  IF ~m.diagnostics THEN m
  ELSE
    LET m1 == [m EXCEPT !.d.size = Size(m.fEvents),
                        !.d.time_diff = tdiff,
                        !.d.n_coinc = IF have_coinc THEN @ + 1 ELSE @]
    IN IF singles_id >= 0 THEN IncrSingles(m1, singles_id) ELSE m1

\* tstamp::Queue::FillDiagnostics(d, tdiff, have_coinc, singles_id)
FillDiagnostics(m, tdiff, have_coinc, singles_id) ==
  IF ~m.diagnostics THEN m
  ELSE
    LET m1 == [m EXCEPT !.d.size = Size(m.fEvents),
                        !.d.time_diff = tdiff,
                        !.d.n_coinc = IF have_coinc THEN @ + 1 ELSE @]
    IN IF singles_id >= 0 /\ singles_id < MAX_TYPES
       THEN IncrSingles(m1, singles_id)
       ELSE IF singles_id > 0 THEN [m1 EXCEPT !.warns = @ + 1] ELSE m1

\* HandleCoinc(event1, event2); thr is the number of the callback
\* invocation of this operation that raises (0: none does).
HandleCoinc(m, event1, event2, thr) ==
  [m EXCEPT !.coincs = Append(@, [e1 |-> event1, e2 |-> event2, pop |-> m.npop,
                                  call |-> m.calls + 1,
                                  ok |-> m.calls + 1 # thr]),
            !.calls = @ + 1,
            !.threw = (m.calls + 1 = thr),
            !.cb = (m.calls + 1 = thr),
            !.victim = IF m.calls + 1 = thr THEN <<m.fEvents[1]>> ELSE @]

\* HandleSingle(e)
HandleSingle(m, e, thr) ==
  [m EXCEPT !.singles = Append(@, [e |-> e, pop |-> m.npop, buf |-> m.fEvents,
                                   seen |-> m.npush,
                                   call |-> m.calls + 1,
                                   ok |-> m.calls + 1 # thr]),
            !.calls = @ + 1,
            !.threw = (m.calls + 1 = thr),
            !.cb = (m.calls + 1 = thr),
            !.victim = IF m.calls + 1 = thr THEN <<m.fEvents[1]>> ELSE @]

\* MatchLoop with the two arguments of HandleCoinc exchanged
RECURSIVE MatchLoopSwapped(_, _, _, _)
MatchLoopSwapped(m, i, end, thr) ==
  IF m.threw \/ i > end THEN m
  ELSE IF i # 1
       THEN MatchLoopSwapped(HandleCoinc([m EXCEPT !.found_coinc = TRUE],
                                         m.fEvents[i], m.fEvents[1], thr),
                             i + 1, end, thr)
       ELSE MatchLoopSwapped(m, i + 1, end, thr)

\* the loop of Pop over the matches: itMatch runs from matches.first (index
\* i) up to, not including, matches.second (index end + 1)
RECURSIVE MatchLoop(_, _, _, _)
MatchLoop(m, i, end, thr) ==
  IF m.threw \/ i > end THEN m
  ELSE IF i # 1
       THEN MatchLoop(HandleCoinc([m EXCEPT !.found_coinc = TRUE],
                                  m.fEvents[1], m.fEvents[i], thr),
                      i + 1, end, thr)
       ELSE MatchLoop(m, i + 1, end, thr)

\* Pop handling and erasing the last buffered event instead of the first
PopBack(m, thr) ==
  LET m0 == [m EXCEPT !.singles_id = -1, !.found_coinc = FALSE] IN
  IF m0.fEvents = <<>> THEN m0
  ELSE
    LET m1 == [m0 EXCEPT !.npop = @ + 1]
        m2 == MatchLoop(m1, 1, EqualRange(m1.fEvents), thr)
        n == Len(m2.fEvents)
        m3 == IF m2.threw THEN m2
              ELSE HandleSingle([m2 EXCEPT !.singles_id = m2.fEvents[n].id],
                                m2.fEvents[n], thr)
    IN IF m3.threw THEN m3 ELSE [m3 EXCEPT !.fEvents = SubSeq(@, 1, n - 1)]

\* Pop looping over the whole buffer instead of the equal range
PopWholeBuffer(m, thr) ==
  LET m0 == [m EXCEPT !.singles_id = -1, !.found_coinc = FALSE] IN
  IF m0.fEvents = <<>> THEN m0
  ELSE
    LET m1 == [m0 EXCEPT !.npop = @ + 1]
        m2 == MatchLoop(m1, 1, Len(m1.fEvents), thr)
        m3 == IF m2.threw THEN m2
              ELSE HandleSingle([m2 EXCEPT !.singles_id = m2.fEvents[1].id],
                                m2.fEvents[1], thr)
    IN IF m3.threw THEN m3 ELSE [m3 EXCEPT !.fEvents = Tail(@)]

\* Pop returning on an empty buffer before it has set its two outputs
PopNoInit(m, thr) ==
  IF m.fEvents = <<>> THEN m
  ELSE
    LET m1 == [m EXCEPT !.singles_id = -1, !.found_coinc = FALSE, !.npop = @ + 1]
        m2 == MatchLoop(m1, 1, EqualRange(m1.fEvents), thr)
        m3 == IF m2.threw THEN m2
              ELSE HandleSingle([m2 EXCEPT !.singles_id = m2.fEvents[1].id],
                                m2.fEvents[1], thr)
    IN IF m3.threw THEN m3 ELSE [m3 EXCEPT !.fEvents = Tail(@)]

\* tstamp::Queue::Pop(singles_id, found_coinc)
Pop(m, thr) ==
  LET m0 == [m EXCEPT !.singles_id = -1, !.found_coinc = FALSE] IN
  IF m0.fEvents = <<>> THEN m0
  ELSE
    LET m1 == [m0 EXCEPT !.npop = @ + 1]
        m2 == MatchLoop(m1, 1, EqualRange(m1.fEvents), thr)
        m3 == IF m2.threw THEN m2
              ELSE HandleSingle([m2 EXCEPT !.singles_id = m2.fEvents[1].id],
                                m2.fEvents[1], thr)
    IN IF m3.threw THEN m3 ELSE [m3 EXCEPT !.fEvents = Tail(@)]

\* FlushTimeoutMessage(max_time)
FlushTimeoutMessage(m, max_time) == [m EXCEPT !.msgs = @ + 1]

\* the test of Flush's loop: max_time > 0 && difftime(time(0), t_begin) <
\* max_time. The clock is outside the program: k is the number of further
\* iterations at which the elapsed time is still below max_time.
WithinDeadline(max_time, k) == max_time > 0 /\ k > 0

\* Flush whose timeout branch erases the front event only, so that the
\* message is repeated for every event left
RECURSIVE FlushEraseFront(_, _, _, _)
FlushEraseFront(m, max_time, k, thr) ==
  IF m.threw \/ m.fEvents = <<>> THEN m
  ELSE IF WithinDeadline(max_time, k)
       THEN FlushEraseFront(Pop(m, thr), max_time, k - 1, thr)
       ELSE FlushEraseFront([FlushTimeoutMessage(m, max_time) EXCEPT
                               !.dropped = @ \cup {m.fEvents[1]},
                               !.timedout = IF max_time >= 0
                                            THEN @ \cup {m.fEvents[1]} ELSE @,
                               !.fEvents = Tail(@)],
                            max_time, k, thr)

\* the diagnostics step that follows a Pop in Push and Flush; a Pop that
\* raised leaves the operation before it
FillAfterPop(p, tdiff) ==
  IF p.threw THEN p ELSE FillDiagnostics(p, tdiff, p.found_coinc, p.singles_id)

\* the loop body filling the diagnostics twice for one Pop
FlushPopFillTwice(m, thr) == FillAfterPop(FillAfterPop(Pop(m, thr), 0), 0)

\* the body of Flush's loop before the deadline: Pop, then FillDiagnostics
FlushPop(m, thr) == FillAfterPop(Pop(m, thr), 0)

\* the else branch of Flush's loop writing the message only
FlushTimeoutKeep(m, max_time) == FlushTimeoutMessage(m, max_time)

\* the else branch of Flush's loop: FlushTimeoutMessage, fEvents.clear()
FlushTimeout(m, max_time) ==
  [FlushTimeoutMessage(m, max_time) EXCEPT
     !.dropped = @ \cup Range(m.fEvents),
     !.timedout = IF max_time >= 0 THEN @ \cup Range(m.fEvents) ELSE @,
     !.fEvents = <<>>]

\* tstamp::Queue::Flush(max_time, diagnostics)
RECURSIVE Flush(_, _, _, _)
Flush(m, max_time, k, thr) ==
  IF m.threw \/ m.fEvents = <<>> THEN m
  ELSE IF WithinDeadline(max_time, k)
       THEN Flush(FlushPop(m, thr), max_time, k - 1, thr)
       ELSE Flush(FlushTimeout(m, max_time), max_time, k, thr)

\* one pass through the body of Flush's loop; within tells whether the
\* clock read in this pass is still below the deadline
FlushBody(m, max_time, within) ==
  IF WithinDeadline(max_time, IF within THEN 1 ELSE 0)
  THEN FlushPop(m, 0)
  ELSE FlushTimeout(m, max_time)

\* Push retrying the insertion without emptying the buffer first
PushNoClear(m, event, fail, thr) ==
  LET ins ==
        IF fail = 0
        THEN [m EXCEPT !.fEvents = Insert(@, event), !.inserts = @ + 1]
        ELSE IF fail = 1
             THEN [m EXCEPT !.fEvents = Insert(@, event), !.inserts = @ + 2]
             ELSE [m EXCEPT !.inserts = @ + 2, !.threw = TRUE]
  IN IF ins.threw THEN ins
     ELSE IF IsFull(ins.fEvents) THEN Pop(ins, thr)
          ELSE [ins EXCEPT !.singles_id = -1, !.found_coinc = FALSE]

\* the second fEvents.insert of Push, made after Flush(-1, diagnostics)
PushRetry(f, event, fail) ==
  IF f.threw THEN f
  ELSE IF fail = 1
       THEN [f EXCEPT !.fEvents = Insert(@, event), !.inserts = @ + 1]
       ELSE [f EXCEPT !.inserts = @ + 1, !.threw = TRUE]

\* the insertion of Push putting the event behind all buffered ones
PushInsertAppend(m, event, fail, thr) ==
  IF fail = 0
  THEN [m EXCEPT !.fEvents = Append(@, event), !.inserts = @ + 1]
  ELSE PushRetry(Flush([m EXCEPT !.inserts = @ + 1], -1, 0, thr), event, fail)

\* the insertion of Push: fEvents.insert, and when it raises
\* Flush(-1, diagnostics) and a second fEvents.insert; fail is the number
\* of consecutive fEvents.insert calls that raise (0, 1 or 2).
PushInsert(m, event, fail, thr) ==
  IF fail = 0
  THEN [m EXCEPT !.fEvents = Insert(@, event), !.inserts = @ + 1]
  ELSE PushRetry(Flush([m EXCEPT !.inserts = @ + 1], -1, 0, thr), event, fail)

\* Pop called after every insertion, the queue full or not
PopAlways(m, thr) == Pop(m, thr)

\* if (IsFull()) Pop(singlesId, haveCoinc), the two locals starting at
\* -1 and false
PopIfFull(m, thr) ==
  IF IsFull(m.fEvents) THEN Pop(m, thr)
  ELSE [m EXCEPT !.singles_id = -1, !.found_coinc = FALSE]

\* Pop repeated until the buffer is no longer full
RECURSIVE Drain(_, _)
Drain(m, thr) ==
  IF m.threw \/ ~IsFull(m.fEvents) THEN m ELSE Drain(Pop(m, thr), thr)

\* the part of Push after the insertion, popping until the span is back
\* within fMaxDelta
PushEmitDrain(ins, event, thr) ==
  IF ins.threw THEN ins
  ELSE FillAfterPop(IF IsFull(ins.fEvents) THEN Drain(ins, thr)
                    ELSE PopIfFull(ins, thr),
                    TimeDiff(event, ins.fEvents[1]))

\* Push emitting until the span is back within fMaxDelta
PushDrain(m, event, fail, thr) ==
  PushEmitDrain(PushInsert(m, event, fail, thr), event, thr)

\* the diagnostics step taking the time difference after Pop has run
FillAfterPopLate(p, event) ==
  IF p.threw THEN p
  ELSE FillDiagnostics(p, TimeDiff(event, p.fEvents[1]), p.found_coinc, p.singles_id)

PushEmitLate(ins, event, thr) ==
  IF ins.threw THEN ins ELSE FillAfterPopLate(PopIfFull(ins, thr), event)

\* Push taking the time difference after Pop has run
PushTdiffAfterPop(m, event, fail, thr) ==
  PushEmitLate(PushInsert(m, event, fail, thr), event, thr)

\* the part of Push after the insertion: the time difference to the
\* oldest event, Pop when the buffer is full, then the diagnostics
PushEmit(ins, event, thr) ==
  IF ins.threw THEN ins
  ELSE FillAfterPop(PopIfFull(ins, thr), TimeDiff(event, ins.fEvents[1]))

\* tstamp::Queue::Push(event, diagnostics)
Push(m, event, fail, thr) ==
  PushEmit(PushInsert(m, event, fail, thr), event, thr)

\* ------------------------------------------------- records and decoding
DRAGON_HEAD_SCALER == 2
DRAGON_TAIL_SCALER == 4
DRAGON_COINC_EVENT == 5
NoData == -1        \* the no-data sentinel of a raw channel

Channels == 1..NumCh

\* event ids handed to Process(const midas::Event&)
ProcessIds == {DRAGON_HEAD_EVENT, DRAGON_HEAD_SCALER, DRAGON_TAIL_EVENT,
               DRAGON_TAIL_SCALER, DRAGON_COINC_EVENT}

\* the bank tags an event of each source can carry, and the channels that
\* have data in its ADC / TDC banks
HeadBanks == {{}, {"VADC", "VTDC", "VTRG"}, {"ADC0", "TDC0", "VTRG"}, {"VADC", "VTRG"}}
TailBanks == {{}, {"TLQ0", "TLQ1", "TLT0", "TLTR"}}
Hits == {{1}, Channels}
BanksOf(id) ==
  IF id = DRAGON_HEAD_EVENT THEN HeadBanks
  ELSE IF id = DRAGON_TAIL_EVENT THEN TailBanks ELSE {{}}

\* the n-th event handed to Process: its trigger time and every raw value
\* of its banks are n, so a decoded value tells which event it came from
MidasEvents(n) ==
  {[id |-> id, serial |-> n, t |-> n, banks |-> b, hit |-> h] :
     id \in ProcessIds, b \in UNION {BanksOf(i) : i \in ProcessIds}, h \in Hits}

\* the channel array a decoder reads from a bank of the event
BankData(event) == [ch \in Channels |-> IF ch \in event.hit THEN event.serial ELSE NoData]

\* vme::reset: every channel of a module record to the sentinel
VmeReset == [ch \in Channels |-> NoData]

\* vme::caen::unpack_adc / unpack_v1190: a bank that is present writes
\* every channel of the module record, an absent one leaves it as it is
unpack_adc(event, bank, module) ==
  IF bank \in event.banks THEN BankData(event) ELSE module
unpack_v1190(event, bank, module) ==
  IF bank \in event.banks THEN BankData(event) ELSE module

\* dragon::gamma::Modules::reset leaving the TDC record as it is
GammaModulesResetAdcOnly(mod) == [mod EXCEPT !.v792 = VmeReset]

\* dragon::gamma::Modules::reset
GammaModulesReset(mod) == [mod EXCEPT !.v792 = VmeReset, !.v1190b = VmeReset]

\* dragon::gamma::Modules::unpack filling the ADC record with zeros when
\* the event has no ADC bank
GammaModulesUnpackZeroFill(mod, event) ==
  [mod EXCEPT !.v792 = IF event.banks \cap {"VADC", "ADC0"} = {}
                       THEN [ch \in Channels |-> 0]
                       ELSE unpack_adc(event, "ADC0", unpack_adc(event, "VADC", @)),
              !.v1190b = unpack_v1190(event, "TDC0", unpack_v1190(event, "VTDC", @))]

\* dragon::gamma::Modules::unpack
GammaModulesUnpack(mod, event) ==
  [mod EXCEPT !.v792 = unpack_adc(event, "ADC0", unpack_adc(event, "VADC", @)),
              !.v1190b = unpack_v1190(event, "TDC0", unpack_v1190(event, "VTDC", @))]

\* dragon::gamma::Modules::tstamp
GammaModulesTstamp(mod) == mod.io32.tstamp

\* dragon::hion::Modules::reset
HionModulesReset(mod) ==
  [mod EXCEPT !.v785 = [i \in DOMAIN @ |-> VmeReset], !.v1190b = VmeReset]

\* dragon::hion::Modules::unpack: no bank is decoded
HionModulesUnpack(mod, event) == mod

\* dragon::hion::Modules::tstamp
HionModulesTstamp(mod) == mod.io32.tstamp

\* dragon::gamma::Bgo::reset and read_data
BgoReset == [q |-> VmeReset, t |-> VmeReset]
BgoReadData(mod) == [q |-> mod.v792, t |-> mod.v1190b]

\* dragon::gamma::Gamma::reset
GammaReset(g) ==
  [g EXCEPT !.modules = GammaModulesReset(@), !.bgo = BgoReset,
            !.log = Append(@, "reset")]

\* dragon::gamma::Gamma::unpack
GammaUnpack(g, event) ==
  [GammaReset(g) EXCEPT !.modules = GammaModulesUnpack(@, event),
                        !.log = Append(@, "modules.unpack")]

\* dragon::gamma::Gamma::read_data
GammaReadData(g) ==
  [g EXCEPT !.evt_count = @ + 1, !.bgo = BgoReadData(g.modules),
            !.log = Append(@, "read_data")]

\* the tail record: reset, unpack and calculate over dragon::hion::Modules
TailReset(g) ==
  [g EXCEPT !.modules = HionModulesReset(@), !.log = Append(@, "reset")]
TailUnpack(g, event) ==
  [TailReset(g) EXCEPT !.modules = HionModulesUnpack(@, event),
                       !.log = Append(@, "modules.unpack")]
TailCalculate(g) ==
  [g EXCEPT !.evt_count = @ + 1, !.log = Append(@, "read_data")]

\* the coincidence record: reset, unpack and calculate; it keeps the
\* serials of the two events of the pair and their trigger time difference
CoincReset(g) ==
  [g EXCEPT !.head = NoData, !.tail = NoData, !.xtrig = NoData,
            !.log = Append(@, "reset")]
CoincUnpack(g, coincEvent) ==
  [CoincReset(g) EXCEPT !.head = coincEvent.head, !.tail = coincEvent.tail,
                        !.log = Append(@, "modules.unpack")]
CoincCalculate(g, coincEvent) ==
  [g EXCEPT !.evt_count = @ + 1, !.xtrig = coincEvent.dt,
            !.log = Append(@, "read_data")]

\* handle_event(data, buf): data.reset(); data.unpack(buf); data.calculate();
\* log lists the calls made on the record by the latest handle_event
handle_event(data, buf) ==
  LET d == [data EXCEPT !.log = <<>>] IN
  IF data.arm = "head"
  THEN GammaReadData(GammaUnpack(GammaReset(d), buf))
  ELSE IF data.arm = "tail"
       THEN TailCalculate(TailUnpack(TailReset(d), buf))
       ELSE CoincCalculate(CoincUnpack(CoincReset(d), buf), buf)

\* the records after construction
GammaInit ==
  [arm |-> "head", evt_count |-> 0,
   modules |-> [v792 |-> VmeReset, v1190b |-> VmeReset, io32 |-> [tstamp |-> 0]],
   bgo |-> BgoReset, log |-> <<>>]
TailInit ==
  [arm |-> "tail", evt_count |-> 0,
   modules |-> [v785 |-> [i \in 0..1 |-> VmeReset], v1190b |-> VmeReset,
                io32 |-> [tstamp |-> 0]],
   log |-> <<>>]

CoincInit ==
  [arm |-> "coinc", evt_count |-> 0, head |-> NoData, tail |-> NoData,
   xtrig |-> NoData, log |-> <<>>]

\* the n-th event handed to Process(const midas::CoincEvent&): a pair of
\* a head and a tail event, dt ticks apart
CoincEvents(n) ==
  {[id |-> DRAGON_COINC_EVENT, serial |-> n, head |-> n, tail |-> n, dt |-> dt] :
     dt \in 0..fCoincWindow}

\* ------------------------------------------------------ the event handler
\* the state an EventHandler operation works on
EvBegin ==
  [gHead |-> gHead, gTail |-> gTail, gCoinc |-> gCoinc, fHistos |-> fHistos,
   hists |-> hists, filled |-> <<>>, threw |-> FALSE, crash |-> FALSE]

\* a member function called through the pointer h to a deleted histogram:
\* the behaviour is undefined; s.crash chooses between the two outcomes
\* a build can show, the call ending the operation or passing unnoticed
StaleUse(s, h) ==
  [s EXCEPT !.hists[h].stale = @ + 1, !.threw = s.crash]

\* hFill: h->fill()
hFill(s, h) ==
  IF s.hists[h].deleted > 0 THEN StaleUse(s, h)
  ELSE [s EXCEPT !.hists[h].fills = @ + 1, !.filled = Append(@, h)]

\* hDestruct: h->write(); delete h
hDestruct(s, h) ==
  IF s.hists[h].deleted > 0
  THEN [StaleUse(s, h) EXCEPT !.hists[h].deleted = @ + 1]
  ELSE [s EXCEPT !.hists[h].written = @ + 1, !.hists[h].deleted = @ + 1]

\* std::for_each(fHistos[EID].begin(), fHistos[EID].end(), hFill())
RECURSIVE FillAll(_, _)
FillAll(s, list) ==
  IF list = <<>> \/ s.threw THEN s
  ELSE FillAll(hFill(s, Head(list)), Tail(list))

\* hListDestruct: std::for_each(p.second.begin(), p.second.end(), hDestruct())
RECURSIVE hListDestruct(_, _)
hListDestruct(s, list) ==
  IF list = <<>> \/ s.threw THEN s
  ELSE hListDestruct(hDestruct(s, Head(list)), Tail(list))

\* rootana::EventHandler::EndRun: every list of the map, in the order of
\* the event ids; the map keeps its lists
RECURSIVE EndRunFrom(_, _)
EndRunFrom(s, ids) ==
  IF ids = {} THEN s
  ELSE LET id == CHOOSE i \in ids : \A j \in ids : i <= j
       IN EndRunFrom(hListDestruct(s, s.fHistos[id]), ids \ {id})
EndRun(s) == EndRunFrom(s, DOMAIN s.fHistos)

\* Process handling the scaler events as head events
ProcessScalerAsHead(s, event) ==
  IF event.id \in {DRAGON_HEAD_EVENT, DRAGON_HEAD_SCALER}
  THEN FillAll([s EXCEPT !.gHead = handle_event(@, event)], s.fHistos[event.id])
  ELSE IF event.id \in {DRAGON_TAIL_EVENT, DRAGON_TAIL_SCALER}
       THEN FillAll([s EXCEPT !.gTail = handle_event(@, event)], s.fHistos[event.id])
       ELSE s

\* rootana::EventHandler::Process(const midas::Event&)
Process(s, event) ==
  IF event.id = DRAGON_HEAD_EVENT
  THEN FillAll([s EXCEPT !.gHead = handle_event(@, event)], s.fHistos[event.id])
  ELSE IF event.id = DRAGON_TAIL_EVENT
       THEN FillAll([s EXCEPT !.gTail = handle_event(@, event)], s.fHistos[event.id])
       ELSE s

\* rootana::EventHandler::Process(const midas::CoincEvent&)
ProcessCoinc(s, coincEvent) ==
  FillAll([s EXCEPT !.gCoinc = handle_event(@, coincEvent)],
          s.fHistos[DRAGON_COINC_EVENT])

\* AddHisto registering the histogram before it looks at the file
AddHistoRegisterFirst(s, hist, eventId, file) ==
  IF file \in {"NULL", "zombie"}
  THEN [s EXCEPT !.fHistos[eventId] = Append(@, hist), !.threw = TRUE]
  ELSE [s EXCEPT !.hists[hist].directory = file,
                 !.fHistos[eventId] = Append(@, hist)]

\* rootana::EventHandler::AddHisto(hist, eventId, file, dirPath); hist is
\* the index in hists of a histogram the caller has just created
AddHisto(s, hist, eventId, file) ==
  IF file \in {"NULL", "zombie"} THEN [s EXCEPT !.threw = TRUE]
  ELSE [s EXCEPT !.hists[hist].directory = file,
                 !.fHistos[eventId] = Append(@, hist)]

EvCommit(s, op, event) ==
  /\ nev' = nev + 1
  /\ gHead' = s.gHead
  /\ gTail' = s.gTail
  /\ gCoinc' = s.gCoinc
  /\ fHistos' = s.fHistos
  /\ hists' = s.hists
  /\ elast' = [op |-> op, event |-> event, threw |-> s.threw, filled |-> s.filled,
               before |-> [gHead |-> gHead, gTail |-> gTail, gCoinc |-> gCoinc,
                           fHistos |-> fHistos, hists |-> hists]]
  /\ UNCHANGED <<qvars, fvars, kvars, dvars, xvars>>

InitEvents ==
  /\ gHead = GammaInit
  /\ gTail = TailInit
  /\ gCoinc = CoincInit
  /\ fHistos = [id \in ProcessIds |-> <<>>]
  /\ hists = <<>>
  /\ nev = 0
  /\ elast = [op |-> "Init", event |-> <<>>, threw |-> FALSE, filled |-> <<>>,
              before |-> [gHead |-> GammaInit, gTail |-> TailInit, gCoinc |-> CoincInit,
                          fHistos |-> [id \in ProcessIds |-> <<>>], hists |-> <<>>]]

\* a histogram as its constructor leaves it
NewHist ==
  [fills |-> 0, directory |-> "none", written |-> 0, deleted |-> 0, stale |-> 0]

\* a caller creates a histogram and registers it
AddHistoOp ==
  /\ nev < MaxOps
  /\ \E eventId \in ProcessIds, file \in {"NULL", "zombie", "file"} :
    LET hist == Len(hists) + 1
        s0 == [EvBegin EXCEPT !.hists = Append(@, NewHist)]
    IN EvCommit(AddHisto(s0, hist, eventId, file), "AddHisto", <<eventId, file>>)

\* the histograms an operation on the lists in ids would reach deleted
Dangling(ids) ==
  {h \in 1..Len(hists) : hists[h].deleted > 0
                           /\ \E id \in ids : \E i \in 1..Len(fHistos[id]) : fHistos[id][i] = h}

\* the outcomes of an operation that may call through a dangling pointer
Crashes(ids) == IF Dangling(ids) = {} THEN {FALSE} ELSE BOOLEAN

\* the event loop hands the next event to the handler
ProcessOp ==
  /\ nev < MaxOps
  /\ \E event \in MidasEvents(nev + 1) :
     \E crash \in Crashes({event.id} \cap {DRAGON_HEAD_EVENT, DRAGON_TAIL_EVENT}) :
    /\ event.banks \in BanksOf(event.id)
    /\ EvCommit(Process([EvBegin EXCEPT !.crash = crash], event), "Process", <<event>>)

\* the run ends
EndRunOp ==
  /\ nev < MaxOps
  /\ \E crash \in Crashes(ProcessIds) :
    EvCommit(EndRun([EvBegin EXCEPT !.crash = crash]), "EndRun", <<>>)

\* the queue's coincidence callback hands a pair to the handler
ProcessCoincOp ==
  /\ nev < MaxOps
  /\ \E coincEvent \in CoincEvents(nev + 1), crash \in Crashes({DRAGON_COINC_EVENT}) :
    EvCommit(ProcessCoinc([EvBegin EXCEPT !.crash = crash], coincEvent),
             "ProcessCoinc", <<coincEvent>>)

NextEvents == AddHistoOp \/ ProcessOp \/ ProcessCoincOp \/ EndRunOp

\* ------------------------------------------------------- two-body kinematics
\* C strings are sequences of characters; the terminating NUL is implicit.
CM == <<"C", "M">>
Lab == <<"L", "a", "b">>
Target == <<"T", "a", "r", "g", "e", "t">>
LabA == <<"L", "a", "b", "A">>
V2 == <<"V", "2">>
Excitation == <<"E", "x", "c", "i", "t", "a", "t", "i", "o", "n">>
Brho == <<"B", "r", "h", "o">>

\* the strings handed to Set4Mom: the seven names, names with a suffix,
\* truncated names and strings that are no name
Frames ==
  {CM, Lab, Target, LabA, V2, Excitation, Brho,
   CM \o <<"S">>, LabA \o <<"2">>, <<"L", "a">>, <<"L", "a", "b", "B">>,
   <<"c", "m">>, <<>>}

\* the first n characters strncmp looks at: it stops behind a NUL
Upto(str, n) ==
  LET z == str \o <<"NUL">>
  IN SubSeq(z, 1, IF n < Len(z) THEN n ELSE Len(z))

\* strncmp(s1, s2, n) == 0
StrnEq(s1, s2, n) == Upto(s1, n) = Upto(s2, n)

\* sqrt on the integers the model computes with
ISqrt(n) == CHOOSE r \in 0..n : r * r <= n /\ n < (r + 1) * (r + 1)

Sq(x) == x * x

\* dragon::Kin2Body::Set4Mom(energy, frame); the doubles are computed on
\* integers, 3.3356 as 33356 / 10000
Set4Mom(k, energy, frame) ==
  IF StrnEq(frame, CM, 2)
  THEN [k EXCEPT !.fS = Sq(k.fM1 + k.fM2 + energy), !.asg = @ \cup {"fS"}]
  ELSE IF StrnEq(frame, Lab, 3)
  THEN [k EXCEPT !.fS = Sq(k.fM1 + k.fM2) + 2 * k.fM2 * energy, !.asg = @ \cup {"fS"}]
  ELSE IF StrnEq(frame, Target, 6)
  THEN [k EXCEPT !.fS = Sq(k.fM1 * k.fM1 + k.fM2 * k.fM2) + 2 * k.fM1 * energy, !.asg = @ \cup {"fS"}]
  ELSE IF StrnEq(frame, LabA, 4)
  THEN [k EXCEPT !.fS = Sq(k.fM1 * k.fM1 + k.fM2 * k.fM2) + 2 * k.fM2 * k.fA * energy, !.asg = @ \cup {"fS"}]
  ELSE IF StrnEq(frame, V2, 2)
  THEN [k EXCEPT !.fS = Sq(k.fM1 * k.fM1 + k.fM2 * k.fM2) + 2 * k.fM2 * k.fM1amu * energy, !.asg = @ \cup {"fS"}]
  ELSE IF StrnEq(frame, Excitation, 10)
  THEN [k EXCEPT !.fS = Sq(k.fM1 * k.fM1 + k.fM2 * k.fM2 + energy - k.fQrxn), !.asg = @ \cup {"fS"}]
  ELSE IF StrnEq(frame, Brho, 4)
  THEN LET fTb == (ISqrt(4 * (Sq(k.fM1) + Sq((k.fqb * energy * 10000) \div 33356)))
                    - 2 * k.fM1) \div 2
       IN [k EXCEPT !.fTb = fTb, !.fS = Sq(k.fM1 + k.fM2) + 2 * k.fM2 * fTb,
                    !.asg = @ \cup {"fTb", "fS"}]
  ELSE [k EXCEPT !.errors = @ + 1]

\* the members of a Kin2Body object as the constructor finds them: nothing
\* is assigned yet, every double holds whatever the memory held (junk);
\* asg is the set of members assigned since, bad the set of members
\* computed from a member that was not assigned
KinObject(junk) ==
  [fM1 |-> junk, fM2 |-> junk, fA |-> junk, fM1amu |-> junk, fqb |-> junk,
   fQrxn |-> junk, fS |-> junk, fTb |-> junk, fPb |-> junk, fTtgt |-> junk,
   fTbA |-> junk, fV2b |-> junk, errors |-> 0, asg |-> {}, bad |-> {}]

\* the masses, mass number, charge state and Q value Init reads from the
\* mass table before it calls Set4Mom
SetMasses(k) ==
  [k EXCEPT !.fM1 = 2, !.fM2 = 3, !.fA = 2, !.fM1amu = 3, !.fqb = 4, !.fQrxn = 1,
            !.asg = @ \cup {"fM1", "fM2", "fM3", "fM4", "fA", "fM1amu", "fqb", "fQrxn"}]

\* the right-hand sides of the derived members whose values the model
\* follows; sqrt of a negative number is NaN, here -1
DerivedValue(k, f) ==
  CASE f = "fTb" -> (k.fS - Sq(k.fM1 + k.fM2)) \div (2 * k.fM2)
    [] f = "fPb" -> LET r == Sq(k.fTb) + 2 * k.fTb * k.fM1
                    IN IF r < 0 THEN -1 ELSE ISqrt(r)
    [] f = "fTtgt" -> (k.fS - Sq(k.fM1 + k.fM2)) \div (2 * k.fM1)
    [] f = "fTbA" -> k.fTb \div k.fA
    [] f = "fV2b" -> k.fTb \div k.fM1amu

\* one assignment of Init: member st[1] is computed from the members st[2]
Derive(k, st) ==
  LET k1 == [k EXCEPT !.asg = @ \cup {st[1]},
                      !.bad = IF st[2] \subseteq k.asg THEN @ \ {st[1]}
                              ELSE @ \cup {st[1]}]
  IN IF st[1] \in DOMAIN k THEN [k1 EXCEPT ![st[1]] = DerivedValue(k, st[1])]
     ELSE k1

RECURSIVE DeriveAll(_, _)
DeriveAll(k, sts) ==
  IF sts = <<>> THEN k ELSE DeriveAll(Derive(k, Head(sts)), Tail(sts))

\* the members fBrho is computed from
BrhoUses(k) == IF k.fqb # 0 THEN {"fqb", "fS", "fM1", "fM2"} ELSE {"fqb"}

\* the assignments of Init for radiative capture after Set4Mom, in order
CaptureOrder(k) ==
  << <<"fPcm", {"fS", "fM1", "fM2"}>>, <<"fPprime", {"fS", "fM4"}>>,
     <<"fChi", {"fPcm", "fM2"}>>, <<"fEcm", {"fS", "fM1", "fM2"}>>,
     <<"fEx", {"fEcm", "fQrxn"}>>, <<"fTb", {"fS", "fM1", "fM2"}>>,
     <<"fPb", {"fTb", "fM1"}>>, <<"fTtgt", {"fS", "fM1", "fM2"}>>,
     <<"fTbA", {"fTb", "fA"}>>, <<"fV2b", {"fTb", "fM1amu"}>>,
     <<"fBrho", BrhoUses(k)>> >>

\* the assignments of Init for particle ejectiles after Set4Mom, in order
EjectileOrder(k) ==
  << <<"fPcm", {"fS", "fM1", "fM2"}>>, <<"fPprime", {"fS", "fM3", "fM4"}>>,
     <<"fPb", {"fTb", "fM1"}>>, <<"fChi", {"fPcm", "fM2"}>>,
     <<"fEcm", {"fS", "fM1", "fM2"}>>, <<"fEx", {"fEcm", "fQrxn"}>>,
     <<"fTb", {"fS", "fM1", "fM2"}>>, <<"fTtgt", {"fS", "fM1", "fM2"}>>,
     <<"fTbA", {"fTb", "fA"}>>, <<"fV2b", {"fTb", "fM1amu"}>>,
     <<"fBrho", BrhoUses(k)>> >>

\* dragon::Kin2Body::Init(projectile, target, energy, frame, qb)
InitCapture(k, energy, frame) ==
  LET k1 == Set4Mom(SetMasses(k), energy, frame)
  IN DeriveAll(k1, CaptureOrder(k1))

\* dragon::Kin2Body::Init(projectile, target, ejectile, energy, frame, qb)
InitEjectile(k, energy, frame) ==
  LET k1 == Set4Mom(SetMasses(k), energy, frame)
  IN DeriveAll(k1, EjectileOrder(k1))

\* a Kin2Body object before Set4Mom: masses, mass number and charge state
\* of the projectile and the Q value are set, fS is not
InitKin ==
  /\ kin = SetMasses(KinObject(0))
  /\ nkin = 0
  /\ klast = [op |-> "Init", energy |-> 0, frame |-> <<>>, before |-> <<>>]

\* a caller sets the four-momentum from an energy in any frame
Set4MomOp ==
  /\ nkin < MaxCalls
  /\ \E energy \in 0..MaxEnergy, frame \in Frames :
       /\ kin' = Set4Mom(kin, energy, frame)
       /\ klast' = [op |-> "Set4Mom", energy |-> energy, frame |-> frame,
                    before |-> <<kin>>]
  /\ nkin' = nkin + 1
  /\ UNCHANGED <<qvars, evvars, fvars, dvars, xvars>>

\* a caller constructs the object for radiative capture
InitCaptureOp ==
  /\ nkin < MaxCalls
  /\ nkin = 0
  /\ \E energy \in 0..MaxEnergy, frame \in Frames, junk \in 0..MaxEnergy :
       /\ kin' = InitCapture(KinObject(junk), energy, frame)
       /\ klast' = [op |-> "InitCapture", energy |-> energy, frame |-> frame,
                    before |-> <<KinObject(junk)>>]
  /\ nkin' = nkin + 1
  /\ UNCHANGED <<qvars, evvars, fvars, dvars, xvars>>

\* a caller constructs the object for a reaction with a particle ejectile
InitEjectileOp ==
  /\ nkin < MaxCalls
  /\ nkin = 0
  /\ \E energy \in 0..MaxEnergy, frame \in Frames, junk \in 0..MaxEnergy :
       /\ kin' = InitEjectile(KinObject(junk), energy, frame)
       /\ klast' = [op |-> "InitEjectile", energy |-> energy, frame |-> frame,
                    before |-> <<KinObject(junk)>>]
  /\ nkin' = nkin + 1
  /\ UNCHANGED <<qvars, evvars, fvars, dvars, xvars>>

NextKin == Set4MomOp \/ InitCaptureOp \/ InitEjectileOp

\* -------------------------------------------------- detectors and scalers
\* the raw samples a channel of an ADC or TDC module can hold
RawValues == {NoData} \cup (1..2)

\* the calibration variables a configuration can set: one slope, offset
\* and pedestal for all channels of a kind; the first are the defaults
AdcVariables == {[slope |-> sl, offset |-> o, pedestal |-> pd] :
                   sl \in 1..2, o \in 0..1, pd \in 0..1}
TdcVariables == {[slope |-> sl, offset |-> o, pedestal |-> 0] : sl \in 1..2, o \in 0..1}
IdentityVariables == [slope |-> 1, offset |-> 0, pedestal |-> 0]

\* sum of the values of array a over the channels in S
RECURSIVE SumOver(_, _)
SumOver(a, S) ==
  IF S = {} THEN 0
  ELSE LET ch == CHOOSE c \in S : TRUE IN a[ch] + SumOver(a, S \ {ch})

\* dragon::Bgo::reset: every observable to the sentinel
DragonBgoReset(b) ==
  [b EXCEPT !.ecal = [ch \in Channels |-> NoData],
            !.tcal = [ch \in Channels |-> NoData],
            !.sum = NoData]

\* dragon::Bgo::read_data(adc, tdc): the raw samples of the mapped channels
DragonBgoReadData(b, adc, tdc) == [b EXCEPT !.ecal = adc, !.tcal = tdc]

\* the calibration of one value
Calibrate(raw, v) ==
  IF raw = NoData THEN NoData ELSE v.slope * (raw - v.pedestal) + v.offset

\* dragon::Bgo::calculate adding every channel to the sum, valid or not
DragonBgoCalculateSumAll(b) ==
  LET ecal == [ch \in Channels |-> Calibrate(b.ecal[ch], b.variables.adc)]
  IN [b EXCEPT !.ecal = ecal,
               !.tcal = [ch \in Channels |-> Calibrate(b.tcal[ch], b.variables.tdc)],
               !.sum = SumOver(ecal, Channels)]

\* dragon::Bgo::calculate: calibrate every valid channel, then add up the
\* valid energies
DragonBgoCalculate(b) ==
  LET ecal == [ch \in Channels |-> Calibrate(b.ecal[ch], b.variables.adc)]
      valid == {ch \in Channels : ecal[ch] # NoData}
  IN [b EXCEPT !.ecal = ecal,
               !.tcal = [ch \in Channels |-> Calibrate(b.tcal[ch], b.variables.tdc)],
               !.sum = IF valid = {} THEN NoData ELSE SumOver(ecal, valid)]

\* a uint32_t is kept as its two 16-bit halves <<high, low>>
Half == 65536
U32Zero == <<0, 0>>
U32Add(a, b) ==
  <<(a[1] + b[1] + ((a[2] + b[2]) \div Half)) % Half, (a[2] + b[2]) % Half>>

\* the increments a scaler channel can report for one period
ScalerCounts == {U32Zero, <<0, 1>>, <<32768, 0>>, <<65535, 65535>>}

\* dragon::Scaler::reset
ScalerReset(sc) ==
  [sc EXCEPT !.count = [ch \in Channels |-> U32Zero],
             !.sum = [ch \in Channels |-> U32Zero],
             !.rate = [ch \in Channels |-> [num |-> U32Zero, den |-> 1]]]

\* dragon::Scaler::unpack keeping the running sum in count as well
ScalerUnpackCumulative(sc, data, period) ==
  [sc EXCEPT !.count = [ch \in Channels |-> U32Add(sc.sum[ch], data[ch])],
             !.sum = [ch \in Channels |-> U32Add(sc.sum[ch], data[ch])],
             !.rate = [ch \in Channels |-> [num |-> data[ch], den |-> period]]]

\* dragon::Scaler::unpack: data holds the counts of the period, period its
\* length in seconds; rate is kept as the fraction count / period
ScalerUnpack(sc, data, period) ==
  [sc EXCEPT !.count = data,
             !.sum = [ch \in Channels |-> U32Add(sc.sum[ch], data[ch])],
             !.rate = [ch \in Channels |-> [num |-> data[ch], den |-> period]]]

\* the records after construction
DragonBgoInit ==
  DragonBgoReset([ecal |-> <<>>, tcal |-> <<>>, sum |-> NoData,
                  variables |-> [adc |-> IdentityVariables, tdc |-> IdentityVariables]])
ScalerInit == ScalerReset([count |-> <<>>, sum |-> <<>>, rate |-> <<>>])

InitDetectors ==
  /\ dbgo = DragonBgoInit
  /\ scaler = ScalerInit
  /\ periods = <<>>
  /\ ndet = 0
  /\ dlast = [op |-> "Init", adc |-> <<>>, tdc |-> <<>>, data |-> <<>>]

\* the configuration loader sets the calibration variables before the run
BgoSetOp ==
  /\ ndet = 0
  /\ dlast.op = "Init"
  /\ \E a \in AdcVariables, t \in TdcVariables :
       dbgo' = [dbgo EXCEPT !.variables = [adc |-> a, tdc |-> t]]
  /\ dlast' = [dlast EXCEPT !.op = "Set"]
  /\ UNCHANGED <<scaler, periods, ndet, qvars, evvars, fvars, kvars, xvars>>

\* an event is handed to the detector: reset, read_data, calculate
BgoEventOp ==
  /\ ndet < MaxCalls
  /\ \E adc \in [Channels -> RawValues], tdc \in [Channels -> {NoData, 1}] :
       /\ dbgo' = DragonBgoCalculate(DragonBgoReadData(DragonBgoReset(dbgo), adc, tdc))
       /\ dlast' = [op |-> "Event", adc |-> adc, tdc |-> tdc, data |-> <<>>]
  /\ ndet' = ndet + 1
  /\ UNCHANGED <<scaler, periods, qvars, evvars, fvars, kvars, xvars>>

NextBgo == BgoSetOp \/ BgoEventOp

\* a scaler event is unpacked
ScalerEventOp ==
  /\ ndet < MaxCalls
  /\ \E data \in [Channels -> ScalerCounts] :
       /\ scaler' = ScalerUnpack(scaler, data, 1)
       /\ periods' = Append(periods, data)
       /\ dlast' = [op |-> "Scaler", adc |-> <<>>, tdc |-> <<>>, data |-> data]
  /\ ndet' = ndet + 1
  /\ UNCHANGED <<dbgo, qvars, evvars, fvars, kvars, xvars>>

\* the scaler is reset
ScalerResetOp ==
  /\ ndet < MaxCalls
  /\ scaler' = ScalerReset(scaler)
  /\ periods' = <<>>
  /\ dlast' = [op |-> "Reset", adc |-> <<>>, tdc |-> <<>>, data |-> <<>>]
  /\ ndet' = ndet + 1
  /\ UNCHANGED <<dbgo, qvars, evvars, fvars, kvars, xvars>>

NextScaler == ScalerEventOp \/ ScalerResetOp

\* ------------------------------------------------------------------ state
\* commit the outcome m of an operation
Commit(m, summary) ==
  /\ nops' = nops + 1
  /\ fEvents' = m.fEvents
  /\ singles' = m.singles
  /\ coincs' = m.coincs
  /\ timedout' = m.timedout
  /\ npop' = m.npop
  /\ npush' = m.npush
  /\ diag' = m.d
  /\ UNCHANGED <<evvars, fvars, kvars, dvars, xvars>>
  /\ nfault' = nfault + (IF m.threw \/ summary.fail > 0 THEN 1 ELSE 0)
  /\ last' = [summary EXCEPT !.threw = m.threw, !.cb = m.cb, !.victim = m.victim,
                             !.msgs = m.msgs, !.dropped = m.dropped,
                             !.inserts = m.inserts, !.calls = m.calls,
                             !.singles_id = m.singles_id,
                             !.found_coinc = m.found_coinc,
                             !.diagnostics = m.diagnostics,
                             !.warns = m.warns, !.oob = m.oob]

\* ------------------------------------------------- the ODB dump reader
\* Text is a tuple of one-character strings; positions are counted from 0
\* as in the code.
OdbTag == <<"<", "o", "d", "b">>
OdbEnd == <<"<", "/", "o", "d", "b", ">">>
NUL == "NUL"
Unset == "?"    \* a byte of a new char[] that nobody wrote

\* the bytes of mem at positions pos .. pos + n - 1 that exist: what
\* fread(str, 1, n, f) delivers at file position pos, and what memcmp
\* compares at &mem[pos]
Window(mem, pos, n) ==
  SubSeq(mem, pos + 1, IF pos + n < Len(mem) THEN pos + n ELSE Len(mem))

Fill(n, c) == [i \in 1..n |-> c]

\* the texts a dump is drawn from: any characters, then possibly the
\* opening tag, more characters, possibly the closing tag, and a rest
Pads == UNION {[1..n -> {"x", "<"}] : n \in 0..MaxPad}
Dumps ==
  Pads \cup {pre \o OdbTag \o mid : pre \in Pads, mid \in Pads}
       \cup {pre \o OdbTag \o mid \o OdbEnd \o post :
               pre \in Pads, mid \in Pads, post \in Pads}

\* what the heap holds behind a new char[length]: the bytes the search
\* can reach past the end, with or without (part of) the tag in them, and
\* what mxml_parse_buffer makes of the text at a tag found there
JunkLen == 2 * Len(OdbTag) - 1
HeapBytes ==
  {SubSeq(Fill(JunkLen, "x") \o OdbTag \o Fill(JunkLen, "x"), j, j + JunkLen - 1) :
     j \in 1..(JunkLen + Len(OdbTag))}
MxmlVerdicts == {"null", "tree", "odb"}
Heaps ==
  {[bytes |-> b, verdict |-> v] : b \in HeapBytes, v \in MxmlVerdicts}
NoHeap == [bytes |-> Fill(JunkLen, "x"), verdict |-> "null"]

\* the members after the initializer list of any constructor; verdict is
\* what mxml_parse_buffer makes of the dump the object is given ("null": no
\* tree, "tree": a tree without an /odb node, "odb": a tree with one); root,
\* error, oob (windows compared that reach past the buffer), warns, looked
\* and ret describe the most recent operation
XmlNew ==
  [fTree |-> FALSE, fOdb |-> FALSE, fIsZombie |-> FALSE, fLength |-> 0,
   fBuffer |-> <<>>, alloc |-> FALSE, verdict |-> "null",
   root |-> "null", error |-> "", oob |-> 0, warns |-> 0, looked |-> "none",
   ret |-> "none"]

XmlBegin(x) ==
  [x EXCEPT !.root = "null", !.error = "", !.oob = 0, !.warns = 0,
            !.looked = "none", !.ret = "none"]

\* the first loop branch of ParseFile: the position of the first "<odb",
\* -1 when a read comes back short
RECURSIVE FindStart(_, _)
FindStart(file, pos) ==
  LET str == Window(file, pos, Len(OdbTag))
  IN IF Len(str) # Len(OdbTag) THEN -1
     ELSE IF str = OdbTag THEN pos
     ELSE FindStart(file, pos + 1)

\* the second loop branch of ParseFile: length when the loop breaks at
\* "</odb>", -1 when a read comes back short
RECURSIVE FindEnd(_, _, _)
FindEnd(file, pos, length) ==
  LET str == Window(file, pos, Len(OdbEnd))
  IN IF Len(str) # Len(OdbEnd) THEN -1
     ELSE IF str = OdbEnd THEN length + 1
     ELSE FindEnd(file, pos + 1, length + 1)

\* midas::Xml::ParseFile(file_name, error, error_size, error_line)
ParseFile(x, exists, file) ==
  IF ~exists THEN [x EXCEPT !.root = "null", !.error = "Unable to open file"]
  ELSE
    LET startPos == FindStart(file, 0)
    IN IF startPos < 0
       THEN [x EXCEPT !.root = "null", !.error = "Could not find <odb"]
       ELSE
         LET found == FindEnd(file, startPos, 0)
         IN IF found < 0
            THEN [x EXCEPT !.root = "null", !.error = "Could not find </odb>"]
            ELSE
              LET length == found + Len(OdbEnd)
                  read == Window(file, startPos, length)
              IN [x EXCEPT !.fLength = length + 1, !.alloc = TRUE,
                           !.fBuffer = read \o <<NUL>>
                                         \o Fill(length - Len(read), Unset),
                           !.root = x.verdict,
                           !.error = IF x.verdict = "null" THEN "mxml" ELSE ""]

\* the search loop of ParseBuffer over the memory at fBuffer
RECURSIVE SearchOdb(_, _, _)
SearchOdb(mem, startPos, length) ==
  IF startPos < length + Len(OdbTag)
     /\ Window(mem, startPos, Len(OdbTag)) # OdbTag
  THEN SearchOdb(mem, startPos + 1, length)
  ELSE startPos

\* midas::Xml::ParseBuffer(buf, length, error, error_size, error_line)
ParseBuffer(x, buf, length, heap) ==
  LET startPos == SearchOdb(buf \o heap.bytes, 0, length)
      missed == startPos = length + Len(OdbTag)
      compared == 0..(IF missed THEN startPos - 1 ELSE startPos)
      x1 == [x EXCEPT !.fLength = length, !.fBuffer = buf, !.alloc = TRUE,
                      !.oob = Cardinality({q \in compared : q + Len(OdbTag) > length})]
  IN IF missed
     THEN [x1 EXCEPT !.root = "null", !.error = "Could not find <odb"]
     ELSE LET root == IF startPos + Len(OdbTag) <= length THEN x.verdict
                      ELSE heap.verdict
          IN [x1 EXCEPT !.root = root,
                        !.error = IF root = "null" THEN "mxml" ELSE ""]

\* what the constructors and InitFromStreamer do with the tree returned
AdoptTree(x) ==
  IF x.root = "null" THEN [x EXCEPT !.fTree = FALSE, !.fIsZombie = TRUE]
  ELSE IF x.root = "tree"
  THEN [x EXCEPT !.fTree = TRUE, !.fOdb = FALSE, !.fIsZombie = TRUE]
  ELSE [x EXCEPT !.fTree = TRUE, !.fOdb = TRUE]

\* midas::Xml::Xml(filename)
XmlFromFile(exists, file, verdict) ==
  AdoptTree(ParseFile([XmlNew EXCEPT !.verdict = verdict], exists, file))

\* midas::Xml::Xml(buf, length)
XmlFromBuffer(buf, verdict, heap) ==
  AdoptTree(ParseBuffer([XmlNew EXCEPT !.verdict = verdict], buf, Len(buf), heap))

\* midas::Xml::InitFromStreamer()
InitFromStreamer(x, heap) ==
  IF x.alloc /\ ~x.fTree
  THEN AdoptTree(ParseBuffer(x, x.fBuffer, x.fLength, heap))
  ELSE x

\* midas::Xml::Check()
Check(x, heap) ==
  IF x.fTree /\ x.fOdb THEN [x EXCEPT !.ret = "true"]
  ELSE LET y == InitFromStreamer(x, heap)
       IN IF y.fTree /\ y.fOdb THEN [y EXCEPT !.ret = "true"]
          ELSE [y EXCEPT !.ret = "false", !.warns = @ + 1]

\* FindKey and FindKeyArray: Check, then mxml_find_node below /odb for a
\* node of the given type, which the tree holds (found) or not
FindNode(x, heap, node_type, found) ==
  LET y == Check(x, heap)
  IN IF y.ret = "false" THEN [y EXCEPT !.ret = "null"]
     ELSE [y EXCEPT !.looked = node_type,
                    !.ret = IF found THEN "node" ELSE "null",
                    !.error = IF found THEN "" ELSE "was not found"]

\* midas::Xml::FindKey(path)
FindKey(x, heap, found) == FindNode(x, heap, "key", found)

\* midas::Xml::FindKeyArray(path)
FindKeyArray(x, heap, found) == FindNode(x, heap, "keyarray", found)

InitXml ==
  /\ xml = XmlNew
  /\ nxml = 0
  /\ xlast = [op |-> "Init", dump |-> <<>>]

Summary(op, event, max_time, k, fail) ==
  [op |-> op, event |-> event, max_time |-> max_time, k |-> k, fail |-> fail,
   before |-> fEvents, pop0 |-> npop, threw |-> FALSE, cb |-> FALSE, victim |-> <<>>,
   msgs |-> 0, dropped |-> {}, inserts |-> 0, calls |-> 0,
   singles_id |-> -1, found_coinc |-> FALSE,
   diagnostics |-> FALSE, warns |-> 0, oob |-> 0]

Init ==
  /\ fEvents = <<>>
  /\ singles = <<>>
  /\ coincs = <<>>
  /\ pushed = {}
  /\ timedout = {}
  /\ npush = 0
  /\ npop = 0
  /\ nfault = 0
  /\ nops = 0
  /\ last = Summary("Init", <<>>, -1, 0, 0)
  /\ diag = DiagnosticsReset
  /\ pc = "idle"
  /\ flmax = -1
  /\ InitEvents
  /\ InitKin
  /\ InitDetectors
  /\ InitXml

\* the faults an operation may meet: the number of the callback invocation
\* that raises (0: none) among the n it can make, and the number of
\* consecutive fEvents.insert calls that raise
Throws(n) == IF nfault < MaxFaults THEN 0..n ELSE {0}
InsertFaults == IF nfault < MaxFaults THEN 0..2 ELSE {0}

\* a caller pushes an event with any id and any trigger time
PushOp ==
  /\ nops < MaxOps
  /\ \E id \in Ids, t \in Times, fail \in InsertFaults, thr \in Throws(Len(fEvents) + 1) :
    LET event == [id |-> id, t |-> t, serial |-> npush + 1]
        m == Push([Begin EXCEPT !.npush = @ + 1], event, fail, thr)
    IN /\ thr > 0 => m.cb
       /\ pushed' = IF fail < 2 THEN pushed \cup {event} ELSE pushed
       /\ Commit(m, Summary("Push", <<event>>, -1, 0, fail))

\* a caller pops; the two variables it passes for the outputs hold
\* their initial values or those of an earlier Pop
PopOp ==
  /\ nops < MaxOps
  /\ \E thr \in Throws(Len(fEvents)), stale \in BOOLEAN :
    LET m == Pop([Begin EXCEPT !.singles_id = IF stale THEN DRAGON_HEAD_EVENT ELSE -1,
                               !.found_coinc = stale], thr)
    IN /\ thr > 0 => m.cb
       /\ pushed' = pushed
       /\ Commit(m, Summary("Pop", <<>>, -1, 0, 0))

\* a caller flushes, with no deadline (-1) or a deadline in seconds
FlushOp ==
  /\ nops < MaxOps
  /\ \E max_time \in {-1, 0, 1}, k \in 0..Len(fEvents),
     thr \in Throws((Len(fEvents) * (Len(fEvents) + 1)) \div 2) :
    LET m == Flush(Begin, max_time, k, thr)
    IN /\ thr > 0 => m.cb
       /\ max_time <= 0 => k = 0
       /\ pushed' = pushed
       /\ Commit(m, Summary("Flush", <<>>, max_time, k, 0))

Next == PushOp \/ PopOp \/ FlushOp

Spec == Init /\ [][Next]_vars

\* --------------------------------------------- the queue with diagnostics
\* Every Push and Flush is handed the same diagnostics object; the events
\* pushed include one whose id is not below MAX_TYPES.  Callbacks may
\* raise; every fEvents.insert succeeds (Spec covers the failing ones).
DiagIds == Ids \cup {MAX_TYPES}
BeginDiag == [Begin EXCEPT !.diagnostics = TRUE]

PushDiag ==
  /\ nops < MaxOps
  /\ \E id \in DiagIds, t \in Times, thr \in Throws(Len(fEvents) + 1) :
    LET event == [id |-> id, t |-> t, serial |-> npush + 1]
        m == Push([BeginDiag EXCEPT !.npush = @ + 1], event, 0, thr)
    IN /\ thr > 0 => m.cb
       /\ pushed' = pushed \cup {event}
       /\ Commit(m, Summary("Push", <<event>>, -1, 0, 0))

FlushDiag ==
  /\ nops < MaxOps
  /\ \E max_time \in {-1, 0, 1}, k \in 0..Len(fEvents),
        thr \in Throws((Len(fEvents) * (Len(fEvents) + 1)) \div 2) :
    LET m == Flush(BeginDiag, max_time, k, thr)
    IN /\ thr > 0 => m.cb
       /\ max_time <= 0 => k = 0
       /\ pushed' = pushed
       /\ Commit(m, Summary("Flush", <<>>, max_time, k, 0))

NextDiag == PushDiag \/ FlushDiag

SpecDiag == Init /\ [][NextDiag]_vars

\* ------------------------------------------------- Flush, step by step
\* Flush run one loop pass at a time, on a queue filled by pushes whose
\* insertion succeeds; the callbacks return.
FlushPush ==
  /\ nops < MaxOps
  /\ pc = "idle"
  /\ \E id \in Ids, t \in Times :
    LET event == [id |-> id, t |-> t, serial |-> npush + 1]
        m == Push([Begin EXCEPT !.npush = @ + 1], event, 0, 0)
    IN /\ pushed' = pushed \cup {event}
       /\ Commit(m, Summary("Push", <<event>>, -1, 0, 0))

\* Flush is entered: t_begin = time(0)
FlushCall ==
  /\ nops < MaxOps
  /\ pc = "idle"
  /\ \E max_time \in {-1, 0, 1} :
       /\ flmax' = max_time
       /\ last' = Summary("Flush", <<>>, max_time, 0, 0)
  /\ pc' = "loop"
  /\ nops' = nops + 1
  /\ UNCHANGED <<fEvents, singles, coincs, pushed, timedout, npush, npop, nfault,
                 diag, evvars, kvars, dvars, xvars>>

\* while (!fEvents.empty()): one pass
FlushIter ==
  /\ pc = "loop"
  /\ fEvents # <<>>
  /\ \E within \in BOOLEAN :
    LET m == FlushBody(Begin, flmax, within)
    IN /\ fEvents' = m.fEvents
       /\ singles' = m.singles
       /\ coincs' = m.coincs
       /\ timedout' = m.timedout
       /\ npop' = m.npop
       /\ last' = [last EXCEPT !.msgs = m.msgs, !.dropped = m.dropped,
                               !.calls = m.calls, !.singles_id = m.singles_id,
                               !.found_coinc = m.found_coinc]
  /\ UNCHANGED <<pushed, npush, nfault, nops, diag, evvars, fvars, kvars, dvars, xvars>>

\* the loop test fails: Flush returns
FlushReturn ==
  /\ pc = "loop"
  /\ fEvents = <<>>
  /\ pc' = "idle"
  /\ UNCHANGED <<qvars, evvars, flmax, kvars, dvars, xvars>>

NextFlush == FlushPush \/ FlushCall \/ FlushIter \/ FlushReturn

\* the thread inside Flush keeps running
SpecFlush ==
  Init /\ [][NextFlush]_vars /\ WF_vars(FlushIter) /\ WF_vars(FlushReturn)

\* ---------------------------------------------------- the ODB dump reader
XmlCommit(x, op, dump) ==
  /\ xml' = x
  /\ nxml' = nxml + 1
  /\ xlast' = [op |-> op, dump |-> dump]
  /\ UNCHANGED <<qvars, evvars, fvars, kvars, dvars>>

\* the heap matters to an operation only when it searches a buffer
HeapsFor(x) == IF x.alloc /\ ~x.fTree THEN Heaps ELSE {NoHeap}

\* a caller constructs the object from a file that may not exist
XmlFileOp ==
  /\ nxml < MaxOps
  /\ nxml = 0
  /\ \E exists \in BOOLEAN, file \in Dumps, verdict \in MxmlVerdicts :
       XmlCommit(XmlFromFile(exists, file, verdict), "XmlFile",
                 IF exists THEN file ELSE <<>>)

\* a caller constructs the object from a buffer in memory
XmlBufferOp ==
  /\ nxml < MaxOps
  /\ nxml = 0
  /\ \E buf \in Dumps, verdict \in MxmlVerdicts, heap \in Heaps :
       XmlCommit(XmlFromBuffer(buf, verdict, heap), "XmlBuffer", buf)

\* a caller constructs the object without arguments
XmlDefaultOp ==
  /\ nxml < MaxOps
  /\ nxml = 0
  /\ XmlCommit(XmlNew, "XmlDefault", <<>>)

\* ROOT I/O hands a default-constructed object its buffer and length
XmlStreamerOp ==
  /\ nxml < MaxOps
  /\ xlast.op = "XmlDefault"
  /\ \E buf \in Dumps, verdict \in MxmlVerdicts :
       XmlCommit([XmlBegin(xml) EXCEPT !.fBuffer = buf, !.fLength = Len(buf),
                                       !.alloc = TRUE, !.verdict = verdict],
                 "Streamer", buf)

XmlCheckOp ==
  /\ nxml < MaxOps
  /\ nxml > 0
  /\ \E heap \in HeapsFor(xml) :
       XmlCommit(Check(XmlBegin(xml), heap), "Check", <<>>)

XmlFindKeyOp ==
  /\ nxml < MaxOps
  /\ nxml > 0
  /\ \E heap \in HeapsFor(xml), found \in BOOLEAN :
       XmlCommit(FindKey(XmlBegin(xml), heap, found), "FindKey", <<>>)

XmlFindKeyArrayOp ==
  /\ nxml < MaxOps
  /\ nxml > 0
  /\ \E heap \in HeapsFor(xml), found \in BOOLEAN :
       XmlCommit(FindKeyArray(XmlBegin(xml), heap, found), "FindKeyArray", <<>>)

NextXml ==
  \/ XmlFileOp \/ XmlBufferOp \/ XmlDefaultOp \/ XmlStreamerOp
  \/ XmlCheckOp \/ XmlFindKeyOp \/ XmlFindKeyArrayOp

\* the event handler fed with events and histograms
SpecEvents == Init /\ [][NextEvents]_vars

\* the BGO record fed with raw samples, and the scaler fed with counts
SpecBgo == Init /\ [][NextBgo]_vars
SpecScaler == Init /\ [][NextScaler]_vars

\* the kinematics object fed with energies and frame strings
SpecKin == Init /\ [][NextKin]_vars

\* the Xml object constructed from dumps and then queried
SpecXml == Init /\ [][NextXml]_vars

\* ----------------------------------------------------------------- claims
\* a and b are of different sources and within the coincidence window
Coincident(a, b) == a.id # b.id /\ Abs(TimeDiff(a, b)) <= fCoincWindow

\* a lies before b in the buffer order: earlier, or equal and pushed first
Before(a, b) == a.t < b.t \/ (a.t = b.t /\ a.serial < b.serial)

\* indices of the HandleCoinc invocations made as (a, b)
CoincCalls(a, b) == {n \in 1..Len(coincs) : coincs[n].e1 = a /\ coincs[n].e2 = b}

\* indices of the HandleSingle invocations made on e
SingleCalls(e) == {i \in 1..Len(singles) : singles[i].e = e}

\* e went through a Pop that ran to its end: handled as a single and erased
Popped(e) == SingleCalls(e) # {} /\ e \notin Range(fEvents)

\* indices of the HandleSingle invocations made by the last operation
SinglesOfLast == {i \in 1..Len(singles) : singles[i].pop > last.pop0}

\* C1, as stated: for every head event a and tail event b that were both
\* pushed, lie within the coincidence window of each other and were both
\* popped (neither discarded), HandleCoinc has been invoked exactly once as
\* (a, b) and exactly once as (b, a).
C1_BothVantages ==
  \A a \in pushed, b \in pushed :
    (Coincident(a, b) /\ a.id = DRAGON_HEAD_EVENT /\ Popped(a) /\ Popped(b))
      => /\ Cardinality(CoincCalls(a, b)) = 1
         /\ Cardinality(CoincCalls(b, a)) = 1

\* C1, amended: in every Pop that reaches HandleSingle, each event of the
\* other source that is buffered within the coincidence window of the popped
\* event has been reported by exactly one HandleCoinc call of that Pop, as
\* (popped event, partner); and HandleCoinc is never invoked with the later
\* event first, so a pair is reported from the earlier event's vantage only.
C1_EarlierVantage ==
  /\ \A i \in 1..Len(singles) :
       \A j \in 2..Len(singles[i].buf) :
         Coincident(singles[i].e, singles[i].buf[j]) =>
           Cardinality({n \in CoincCalls(singles[i].e, singles[i].buf[j]) :
                          coincs[n].pop = singles[i].pop}) = 1
  /\ \A n \in 1..Len(coincs) : Before(coincs[n].e1, coincs[n].e2)

\* C1 witness: a head and a tail within the window were buffered together
\* and both have been popped.
C1_Witness ==
  \E i \in 1..Len(singles), j \in 1..Len(singles) :
    /\ i < j
    /\ Coincident(singles[i].e, singles[j].e)
    /\ singles[j].e \in Range(singles[i].buf)
    /\ Popped(singles[i].e) /\ Popped(singles[j].e)

\* C2: HandleCoinc is never invoked with two events of the same source.
C2_NoSameSource ==
  \A n \in 1..Len(coincs) : coincs[n].e1.id # coincs[n].e2.id

\* C3: after any Push returns, the buffered time span does not exceed the
\* maximum fMaxDelta.
C3_SpanBound ==
  (last.op = "Push" /\ ~last.threw) => Span(fEvents) <= fMaxDelta

\* C4: a Flush with no deadline (max_time = -1) issues no timeout message,
\* deletes no event unhandled and passes every buffered event to
\* HandleSingle.
C4_FlushNoDeadline ==
  (last.op = "Flush" /\ last.max_time = -1 /\ ~last.threw)
    => /\ last.msgs = 0
       /\ last.dropped = {}
       /\ \A e \in Range(last.before) :
            \E i \in SinglesOfLast : singles[i].e = e

\* C5: every pushed event is passed to HandleSingle at most once, and
\* exactly once when it has left the buffer, unless a flush timeout
\* discarded it.
C5_ExactlyOnce ==
  \A e \in pushed :
    /\ Cardinality(SingleCalls(e)) <= 1
    /\ e \notin Range(fEvents) =>
         (Cardinality(SingleCalls(e)) = 1 \/ e \in timedout)

\* C6, as stated: the trigger times of the events passed to HandleSingle
\* are non-decreasing.
C6_Monotone ==
  \A i \in 1..Len(singles), j \in 1..Len(singles) :
    i < j => singles[i].e.t <= singles[j].e.t

\* C6, amended: every event passed to HandleSingle has the least trigger
\* time of the events buffered at that moment, so a single is followed by
\* one of an earlier trigger time only if that one was pushed after the
\* first was emitted.
C6_MonotoneAmongBuffered ==
  /\ \A i \in 1..Len(singles) :
       \A x \in Range(singles[i].buf) : singles[i].e.t <= x.t
  /\ \A i \in 1..Len(singles), j \in 1..Len(singles) :
       (i < j /\ singles[j].e.t < singles[i].e.t)
         => singles[j].e.serial > singles[i].seen

\* C6 witness: two events pushed in decreasing trigger-time order were
\* buffered together and have been emitted in increasing order.
C6_Witness ==
  \E i \in 1..Len(singles), j \in 1..Len(singles) :
    /\ i < j
    /\ singles[i].e.serial > singles[j].e.serial
    /\ singles[i].e.t < singles[j].e.t
    /\ singles[j].e \in Range(singles[i].buf)

\* C7: when a callback raises during a Pop, the event being popped is
\* consumed: it is no longer in the buffer afterwards.
C7_Consumed ==
  (last.threw /\ last.cb) => last.victim[1] \notin Range(fEvents)

C9_Timeout ==
  (last.op = "Flush" /\ last.max_time >= 0 /\ ~last.threw
     /\ last.k < Len(last.before))
    => /\ last.msgs = 1
       /\ fEvents = <<>>
       /\ last.dropped = {last.before[i] : i \in (last.k + 1)..Len(last.before)}
       /\ last.dropped \subseteq timedout
       /\ {singles[i].e : i \in SinglesOfLast}
            = {last.before[i] : i \in 1..last.k}
       /\ Cardinality(SinglesOfLast) = last.k
       /\ \A n \in 1..Len(coincs) :
            coincs[n].pop > last.pop0 => coincs[n].e1 \notin last.dropped

\* C9 witness: a Flush with a deadline that popped one event and then timed
\* out with an event left.
C9_Witness ==
  /\ last.op = "Flush" /\ last.max_time > 0 /\ ~last.threw
  /\ last.k = 1 /\ Len(last.before) >= 2

\* C10: during a Pop, HandleCoinc is invoked for a buffered event of the
\* other source if and only if its trigger time is within fCoincWindow
\* (inclusive) of the popped event's; no pair farther apart is reported.
C10_WindowIff ==
  /\ \A i \in 1..Len(singles) :
       \A j \in 2..Len(singles[i].buf) :
         singles[i].buf[j].id # singles[i].e.id =>
           ((\E n \in CoincCalls(singles[i].e, singles[i].buf[j]) :
                coincs[n].pop = singles[i].pop)
             <=> Abs(TimeDiff(singles[i].buf[j], singles[i].e)) <= fCoincWindow)
  /\ \A n \in 1..Len(coincs) :
       Abs(TimeDiff(coincs[n].e1, coincs[n].e2)) <= fCoincWindow

\* C10 witness: a Pop with one event of the other source buffered exactly
\* fCoincWindow away and another one farther away.
C10_Witness ==
  \E i \in 1..Len(singles) :
    \E j \in 2..Len(singles[i].buf), k \in 2..Len(singles[i].buf) :
      /\ singles[i].buf[j].id # singles[i].e.id
      /\ singles[i].buf[k].id # singles[i].e.id
      /\ Abs(TimeDiff(singles[i].buf[j], singles[i].e)) = fCoincWindow
      /\ Abs(TimeDiff(singles[i].buf[k], singles[i].e)) > fCoincWindow

\* ------------------------------------------------ ties and emission
\* the events a Push has in the buffer once its insertion is done
AfterInsert ==
  (IF last.fail = 0 THEN Range(last.before) ELSE {}) \cup Range(last.event)

\* C11: two events with equal trigger time that were buffered together
\* are emitted as singles in the order in which they were pushed.
C11_StableTies ==
  \A i \in 1..Len(singles) : \A j \in (i + 1)..Len(singles) :
    ( /\ singles[i].e # singles[j].e
      /\ singles[i].e.t = singles[j].e.t
      /\ singles[j].e \in Range(singles[i].buf) )
    => singles[i].e.serial < singles[j].e.serial

\* two equal-time events were buffered together and both were emitted
C11_Witness ==
  \E i \in 1..Len(singles) : \E j \in (i + 1)..Len(singles) :
    /\ singles[i].e # singles[j].e
    /\ singles[i].e.t = singles[j].e.t
    /\ singles[j].e \in Range(singles[i].buf)
    /\ singles[i].ok /\ singles[j].ok

RECURSIVE SumUpTo(_, _)
SumUpTo(f, n) == IF n < 0 THEN 0 ELSE f[n] + SumUpTo(f, n - 1)

\* singles, and coincidences, whose callback returned
Delivered(id) == {i \in 1..Len(singles) : singles[i].ok /\ singles[i].e.id = id}
CoincsDelivered == {n \in 1..Len(coincs) : coincs[n].ok}

\* C13: when a Push given a diagnostics object returns, size is the
\* number of events buffered and time_diff is the trigger time of the
\* pushed event minus that of the oldest event buffered after insertion.
C13_PushDiagnostics ==
  (last.op = "Push" /\ last.diagnostics /\ ~last.threw) =>
    /\ diag.size = Len(fEvents)
    /\ diag.time_diff = last.event[1].t - SetMin({x.t : x \in AfterInsert})

\* a Push with diagnostics emitted the oldest event, which was older
\* than the pushed one
C13_Witness ==
  /\ last.op = "Push" /\ last.diagnostics /\ ~last.threw
  /\ SinglesOfLast # {}
  /\ diag.time_diff > 0
  /\ diag.size > 0

\* C14: n_coinc equals the number of coincidence-callback invocations.
C14_CoincCount == diag.n_coinc = Cardinality(CoincsDelivered)

C16_SinglesLePushed ==
  SumUpTo(diag.n_singles, MAX_TYPES - 1) <= Cardinality(pushed)

\* a Flush has timed out on a non-empty buffer after a single was counted
C16_Witness ==
  /\ last.op = "Flush" /\ last.dropped # {} /\ last.msgs > 0
  /\ SumUpTo(diag.n_singles, MAX_TYPES - 1) > 0

\* C17: after a Flush that timed out and discarded events, size equals
\* the size of the queue.
C17_SizeAfterTimeout ==
  (last.op = "Flush" /\ last.diagnostics /\ ~last.threw /\ last.dropped # {})
    => diag.size = Len(fEvents)

\* ------------------------------------------------------- event handling
\* the event of the latest Process call
Processed(id) == elast.op = "Process" /\ elast.event[1].id = id

\* C18: processing a head-scaler event, a tail-scaler event or an event
\* with an unrecognized id leaves the head record, the tail record, the
\* registry and every histogram as they were, and fills nothing.
C18_ScalerInert ==
  (elast.op = "Process"
     /\ elast.event[1].id \notin {DRAGON_HEAD_EVENT, DRAGON_TAIL_EVENT}) =>
    /\ gHead = elast.before.gHead
    /\ gTail = elast.before.gTail
    /\ fHistos = elast.before.fHistos
    /\ hists = elast.before.hists
    /\ elast.filled = <<>>

\* a scaler event was processed while a histogram was registered under
\* its id and the head record held the data of an earlier event
C18_Witness ==
  /\ elast.op = "Process"
  /\ elast.event[1].id \in {DRAGON_HEAD_SCALER, DRAGON_TAIL_SCALER}
  /\ fHistos[elast.event[1].id] # <<>>
  /\ gHead.evt_count > 0

\* the calls of the latest handle_event on record g came in the order
\* reset, decode, calculate
ResetDecodeCalculate(g) ==
  LET R == {i \in 1..Len(g.log) : g.log[i] = "reset"}
      D == {i \in 1..Len(g.log) : g.log[i] = "modules.unpack"}
      C == {i \in 1..Len(g.log) : g.log[i] = "read_data"}
  IN /\ R # {} /\ D # {} /\ C # {}
     /\ \A r \in R, d \in D : r < d
     /\ \A d \in D, c \in C : d < c

\* C19: when a head or tail event has been processed, its record was
\* reset before the banks were decoded and calculated after, and every
\* channel of the record holds the sentinel or a value of that event.
C19_ResetBeforeDecode ==
  /\ Processed(DRAGON_HEAD_EVENT) =>
       /\ ResetDecodeCalculate(gHead)
       /\ \A ch \in Channels :
            {gHead.modules.v792[ch], gHead.modules.v1190b[ch],
             gHead.bgo.q[ch], gHead.bgo.t[ch]} \subseteq {NoData, elast.event[1].serial}
  /\ Processed(DRAGON_TAIL_EVENT) =>
       /\ ResetDecodeCalculate(gTail)
       /\ \A ch \in Channels :
            {gTail.modules.v785[0][ch], gTail.modules.v785[1][ch],
             gTail.modules.v1190b[ch]} \subseteq {NoData, elast.event[1].serial}

\* a head event without TDC bank was processed while the record held the
\* TDC data of an earlier event
C19_Witness ==
  /\ Processed(DRAGON_HEAD_EVENT)
  /\ elast.event[1].banks \cap {"VTDC", "TDC0"} = {}
  /\ \E ch \in Channels : elast.before.gHead.modules.v1190b[ch] # NoData
  /\ \E ch \in Channels : gHead.modules.v792[ch] = elast.event[1].serial

\* C20: after a head (tail) event with an FPGA-header bank is processed,
\* tstamp() of the head (tail) modules is the trigger time of that bank,
\* and the tail ADC and TDC records hold the data of the tail banks.
C20_HeaderAndBanks ==
  /\ (Processed(DRAGON_HEAD_EVENT) /\ "VTRG" \in elast.event[1].banks) =>
       GammaModulesTstamp(gHead.modules) = elast.event[1].t
  /\ (Processed(DRAGON_TAIL_EVENT) /\ "TLTR" \in elast.event[1].banks) =>
       /\ HionModulesTstamp(gTail.modules) = elast.event[1].t
       /\ gTail.modules.v785[0] = BankData(elast.event[1])
       /\ gTail.modules.v785[1] = BankData(elast.event[1])
       /\ gTail.modules.v1190b = BankData(elast.event[1])

\* C21: when the banks a module record is decoded from are absent from a
\* processed event, every channel of that record holds the no-data
\* sentinel after reset and unpack, and no error is raised: reset, unpack
\* and calculate all ran.
C21_MissingBank ==
  /\ Processed(DRAGON_HEAD_EVENT) =>
       /\ ResetDecodeCalculate(gHead)
       /\ elast.event[1].banks \cap {"VADC", "ADC0"} = {} =>
            \A ch \in Channels : gHead.modules.v792[ch] = NoData
       /\ elast.event[1].banks \cap {"VTDC", "TDC0"} = {} =>
            \A ch \in Channels : gHead.modules.v1190b[ch] = NoData
  /\ Processed(DRAGON_TAIL_EVENT) =>
       /\ ResetDecodeCalculate(gTail)
       /\ "TLQ0" \notin elast.event[1].banks =>
            \A ch \in Channels : gTail.modules.v785[0][ch] = NoData
       /\ "TLQ1" \notin elast.event[1].banks =>
            \A ch \in Channels : gTail.modules.v785[1][ch] = NoData
       /\ "TLT0" \notin elast.event[1].banks =>
            \A ch \in Channels : gTail.modules.v1190b[ch] = NoData

\* a head event without ADC bank was processed while the record held the
\* ADC data of an earlier event
C21_Witness ==
  /\ Processed(DRAGON_HEAD_EVENT)
  /\ elast.event[1].banks \cap {"VADC", "ADC0"} = {}
  /\ \E ch \in Channels : elast.before.gHead.modules.v792[ch] # NoData

\* the latest Process call filled exactly the histograms registered under
\* id, each once, in the order of their registration
FilledOnly(id) ==
  /\ elast.filled = elast.before.fHistos[id]
  /\ fHistos = elast.before.fHistos
  /\ Len(hists) = Len(elast.before.hists)
  /\ \A h \in 1..Len(hists) :
       /\ hists[h].directory = elast.before.hists[h].directory
       /\ hists[h].fills = elast.before.hists[h].fills
            + Cardinality({i \in 1..Len(fHistos[id]) : fHistos[id][i] = h})

\* C28: processing a head event runs reset, unpack and calculate on the
\* head record only, fills each histogram registered under the head id
\* once, in registration order, and no other, and leaves the tail and
\* coincidence records as they were; likewise for a tail event.
C28_ProcessFrame ==
  /\ Processed(DRAGON_HEAD_EVENT) =>
       /\ ResetDecodeCalculate(gHead)
       /\ gHead.evt_count = elast.before.gHead.evt_count + 1
       /\ gTail = elast.before.gTail
       /\ gCoinc = elast.before.gCoinc
       /\ FilledOnly(DRAGON_HEAD_EVENT)
  /\ Processed(DRAGON_TAIL_EVENT) =>
       /\ ResetDecodeCalculate(gTail)
       /\ gTail.evt_count = elast.before.gTail.evt_count + 1
       /\ gHead = elast.before.gHead
       /\ gCoinc = elast.before.gCoinc
       /\ FilledOnly(DRAGON_TAIL_EVENT)

\* ------------------------------------------ order, Pop, Push revisited
\* C24: the buffer is ordered by trigger time, and the event Pop hands to
\* the singles callback has the minimum trigger time of the events
\* buffered at that moment.
C24_SortedByTime ==
  /\ \A i \in 1..Len(fEvents) : \A j \in (i + 1)..Len(fEvents) :
       fEvents[i].t <= fEvents[j].t
  /\ \A n \in 1..Len(singles) :
       /\ singles[n].e = singles[n].buf[1]
       /\ \A x \in Range(singles[n].buf) : singles[n].e.t <= x.t

\* an event pushed after a later one was emitted first, and the buffer
\* holds an event pushed before an earlier one
C24_Witness ==
  /\ \E n \in 1..Len(singles) : \E x \in Range(singles[n].buf) :
       singles[n].e.serial > x.serial /\ singles[n].e.t < x.t
  /\ Len(fEvents) > 0

\* the coincidence calls made by Pop number p
CoincsOfPop(p) == {c \in 1..Len(coincs) : coincs[c].pop = p}

\* C25: a Pop on a non-empty queue invokes the coincidence callback once
\* for each match of the front event E0, with E0 as first argument, then
\* the singles callback on E0 once, and removes E0 and nothing else.
C25_PopSequence ==
  /\ \A n \in 1..Len(singles) :
       LET E0 == singles[n].e
           buf == singles[n].buf
           cs == CoincsOfPop(singles[n].pop)
       IN /\ E0 = buf[1]
          /\ \A c \in cs : /\ coincs[c].e1 = E0
                           /\ coincs[c].call < singles[n].call
          /\ \A i \in 2..Len(buf) :
               Cardinality({c \in cs : coincs[c].e2 = buf[i]})
                 = IF i <= EqualRange(buf) THEN 1 ELSE 0
          /\ Cardinality({k \in 1..Len(singles) : singles[k].pop = singles[n].pop}) = 1
  /\ (last.op = "Pop" /\ last.before # <<>>) =>
       /\ fEvents = Tail(last.before)
       /\ \E n \in SinglesOfLast :
            SinglesOfLast = {n} /\ singles[n].e = last.before[1]

\* C27: Pop on an empty queue reports singles_id = -1 and found_coinc =
\* false, invokes no callback and leaves the queue empty.
C27_PopEmptyNoop ==
  (last.op = "Pop" /\ last.before = <<>>) =>
    /\ last.singles_id = -1
    /\ ~last.found_coinc
    /\ last.calls = 0
    /\ SinglesOfLast = {}
    /\ npop = last.pop0
    /\ ~last.threw
    /\ fEvents = <<>>

\* Pop was called on a queue that an earlier Pop had emptied
C27_Witness ==
  /\ last.op = "Pop" /\ last.before = <<>>
  /\ Len(singles) > 0

C26_FlushTerminates == (pc = "loop") ~> (pc = "idle" /\ fEvents = <<>>)

\* a Flush with a deadline popped an event, timed out on the rest and
\* has returned
C26_Witness ==
  /\ pc = "idle" /\ last.op = "Flush" /\ last.max_time = 1
  /\ fEvents = <<>>
  /\ SinglesOfLast # {}
  /\ last.msgs = 1 /\ last.dropped # {}

\* -------------------------------------------------------------- kinematics
\* the invariant mass squared that the frame named f stands for
FrameFormula(f, k, energy) ==
  IF f = CM THEN Sq(k.fM1 + k.fM2 + energy)
  ELSE IF f = Lab THEN Sq(k.fM1 + k.fM2) + 2 * k.fM2 * energy
  ELSE IF f = Target THEN Sq(k.fM1 * k.fM1 + k.fM2 * k.fM2) + 2 * k.fM1 * energy
  ELSE IF f = LabA THEN Sq(k.fM1 * k.fM1 + k.fM2 * k.fM2) + 2 * k.fM2 * k.fA * energy
  ELSE IF f = V2 THEN Sq(k.fM1 * k.fM1 + k.fM2 * k.fM2) + 2 * k.fM2 * k.fM1amu * energy
  ELSE IF f = Excitation THEN Sq(k.fM1 * k.fM1 + k.fM2 * k.fM2 + energy - k.fQrxn)
  ELSE Sq(k.fM1 + k.fM2) + 2 * k.fM2 * k.fTb

FrameNames == {CM, Lab, Target, LabA, V2, Excitation, Brho}

\* C29: Set4Mom evaluates, for each of the seven frame strings, the
\* formula of that frame, 'LabA' with the per-nucleon formula and not
\* the 'Lab' one, and only a string matching none of the seven reaches
\* the error branch.
C29_FrameSelectsFormula ==
  klast.op = "Set4Mom" =>
    /\ \A f \in FrameNames :
         klast.frame = f => kin.fS = FrameFormula(f, kin, klast.energy)
    /\ kin.errors > klast.before[1].errors
         <=> \A f \in FrameNames : ~StrnEq(klast.frame, f, Len(f))

\* ---------------------------------------------------------------- detectors
\* C22: after reset, read_data and calculate every calibrated value is the
\* sentinel exactly when its raw sample was, and the energy sum is the
\* total of the calibrated values that are not the sentinel, and the
\* sentinel exactly when every one of them is.
C22_SentinelPropagation ==
  dlast.op = "Event" =>
    LET valid == {ch \in Channels : dlast.adc[ch] # NoData} IN
    /\ \A ch \in Channels :
         /\ dbgo.ecal[ch] = NoData <=> dlast.adc[ch] = NoData
         /\ dbgo.tcal[ch] = NoData <=> dlast.tdc[ch] = NoData
         /\ dlast.adc[ch] # NoData =>
              dbgo.ecal[ch] = dbgo.variables.adc.slope
                                * (dlast.adc[ch] - dbgo.variables.adc.pedestal)
                              + dbgo.variables.adc.offset
    /\ dbgo.sum = NoData <=> valid = {}
    /\ valid # {} => dbgo.sum = SumOver(dbgo.ecal, valid)

\* an event with one sentinel and one valid ADC sample was calculated
\* with calibration variables that are not the defaults
C22_Witness ==
  /\ dlast.op = "Event"
  /\ \E c1, c2 \in Channels : dlast.adc[c1] = NoData /\ dlast.adc[c2] # NoData
  /\ dbgo.variables.adc # IdentityVariables
  /\ dbgo.sum # NoData

\* the exact total of channel ch over the periods since the reset, in
\* three 16-bit digits <<d2, d1, d0>>
RECURSIVE Total(_, _)
Total(seq, ch) ==
  IF seq = <<>> THEN <<0, 0, 0>>
  ELSE LET t == Total(Tail(seq), ch)
           c == Head(seq)[ch]
           d0 == t[3] + c[2]
           d1 == t[2] + c[1] + (d0 \div Half)
       IN <<t[1] + (d1 \div Half), d1 % Half, d0 % Half>>

\* C23: count[i] is the increment of the most recent period and sum[i]
\* the total of the increments since the reset modulo 2^32; after a reset
\* count, sum and rate are zero.
C23_ScalerSums ==
  /\ \A ch \in Channels :
       /\ scaler.sum[ch] = <<Total(periods, ch)[2], Total(periods, ch)[3]>>
       /\ periods # <<>> => scaler.count[ch] = periods[Len(periods)][ch]
  /\ dlast.op = "Scaler" => scaler.count = dlast.data
  /\ dlast.op = "Reset" =>
       \A ch \in Channels :
         /\ scaler.count[ch] = U32Zero
         /\ scaler.sum[ch] = U32Zero
         /\ scaler.rate[ch].num = U32Zero

\* the sum of a channel has wrapped around 2^32 while its latest count
\* is not zero
C23_Witness ==
  /\ dlast.op = "Scaler"
  /\ \E ch \in Channels :
       /\ Total(periods, ch)[1] > 0
       /\ scaler.count[ch] # U32Zero
       /\ scaler.sum[ch] # scaler.count[ch]

\* ------------------------------------------------------ the last claims
\* C31: a Push with diagnostics whose insertion does not make the queue
\* full changes, of the diagnostics object, size and time_diff only:
\* n_coinc and every n_singles counter stay, and no warning is issued.
C31_NonFullPushFrame ==
  [][(/\ nops' = nops + 1
      /\ last'.op = "Push" /\ last'.diagnostics /\ ~last'.threw
      /\ ~IsFull(Insert(fEvents, last'.event[1])))
     => /\ diag'.n_coinc = diag.n_coinc
        /\ diag'.n_singles = diag.n_singles
        /\ last'.warns = 0 /\ last'.oob = 0
        /\ diag'.size = Len(fEvents) + 1
        /\ DOMAIN diag' = DOMAIN diag]_vars

\* a Push with diagnostics left the queue not full and popped nothing,
\* while a single had been counted before
C31_Witness ==
  /\ last.op = "Push" /\ last.diagnostics /\ ~last.threw
  /\ npop = last.pop0
  /\ ~IsFull(fEvents)
  /\ Len(fEvents) = Len(last.before) + 1
  /\ \E id \in DOMAIN diag.n_singles : diag.n_singles[id] > 0

\* C32: no Process call and no second EndRun fills, writes or deletes a
\* histogram that an EndRun has deleted: every histogram is written and
\* deleted at most once and never used afterwards.
C32_NoDanglingHisto ==
  \A h \in 1..Len(hists) :
    /\ hists[h].stale = 0
    /\ hists[h].written <= 1
    /\ hists[h].deleted <= 1

\* the histograms registered under no event id
Unregistered ==
  {h \in 1..Len(hists) :
     \A id \in DOMAIN fHistos : \A i \in 1..Len(fHistos[id]) : fHistos[id][i] # h}

\* C33: AddHisto with a NULL or zombie file raises and leaves the registry
\* as it was, and the histogram it was given is registered under no id
\* and is never filled.
C33_AddHistoRejects ==
  /\ (elast.op = "AddHisto" /\ elast.event[2] \in {"NULL", "zombie"}) =>
       /\ elast.threw
       /\ fHistos = elast.before.fHistos
       /\ Len(hists) \in Unregistered
  /\ \A h \in Unregistered :
       /\ hists[h].fills = 0
       /\ hists[h].directory = "none"
       /\ h \notin Range(elast.filled)

\* a histogram was rejected, another one registered under the head id,
\* and a head event then filled the registered one
C33_Witness ==
  /\ Unregistered # {}
  /\ Processed(DRAGON_HEAD_EVENT)
  /\ elast.filled # <<>>

\* C36: after either Init with a frame string Set4Mom recognises, every
\* derived member was computed from members assigned earlier in that same
\* call, and the beam momentum fPb is the momentum of the beam kinetic
\* energy fTb that the call derived from fS
C36_InitOrder ==
  (klast.op \in {"InitCapture", "InitEjectile"} /\ kin.errors = 0) =>
    /\ kin.bad = {}
    /\ kin.fPb = DerivedValue(kin, "fPb")

\* does text hold tag at some position
HoldsTag(text, tag) ==
  \E q \in 0..Len(text) : Window(text, q, Len(tag)) = tag

\* C34: the search of ParseBuffer compares no window that reaches past the
\* length bytes of the buffer, and a buffer without "<odb" yields no tree
\* and the error "Could not find"
C34_SearchInBounds ==
  xlast.op = "XmlBuffer" =>
    /\ xml.oob = 0
    /\ ~HoldsTag(xlast.dump, OdbTag)
         => xml.root = "null" /\ xml.error = "Could not find <odb"

\* C35: after Check, FindKey or FindKeyArray the object answers as usable
\* exactly when it is not flagged zombie: Check returns true and a lookup is
\* made only with the tree and its /odb node, and an object that Check
\* refuses is flagged zombie and yields null
C35_UsableIffNotZombie ==
  xlast.op \in {"Check", "FindKey", "FindKeyArray"} =>
    /\ (xml.ret = "true" \/ xml.looked # "none") => xml.fTree /\ xml.fOdb
    /\ (xml.ret = "false" \/ (xlast.op # "Check" /\ xml.looked = "none"))
         => xml.fIsZombie /\ xml.ret \in {"false", "null"}
    /\ xml.fIsZombie <=> ~(xml.fTree /\ xml.fOdb)

\* the text from the first "<odb" on
OdbSegmentTail(text) ==
  LET from == CHOOSE q \in 0..Len(text) :
                /\ Window(text, q, Len(OdbTag)) = OdbTag
                /\ \A r \in 0..(q - 1) : Window(text, r, Len(OdbTag)) # OdbTag
  IN SubSeq(text, from + 1, Len(text))

\* the text from the first "<odb" through the end of the first "</odb>"
\* that follows it
OdbSegment(text) ==
  LET from == CHOOSE q \in 0..Len(text) :
                /\ Window(text, q, Len(OdbTag)) = OdbTag
                /\ \A r \in 0..(q - 1) : Window(text, r, Len(OdbTag)) # OdbTag
      to == CHOOSE q \in from..Len(text) :
              /\ Window(text, q, Len(OdbEnd)) = OdbEnd
              /\ \A r \in from..(q - 1) : Window(text, r, Len(OdbEnd)) # OdbEnd
  IN SubSeq(text, from + 1, to + Len(OdbEnd))

\* the C string at the start of a buffer
CString(buffer) ==
  SubSeq(buffer, 1, (CHOOSE n \in 1..Len(buffer) :
                       buffer[n] = NUL /\ \A j \in 1..(n - 1) : buffer[j] # NUL) - 1)

\* C37: ParseFile on a file with "<odb" and a later "</odb>" leaves in
\* fBuffer exactly the text from the first "<odb" through the end of the
\* first "</odb>" after it, terminated by a NUL inside the fLength bytes
C37_LoadsSegment ==
  (xlast.op = "XmlFile" /\ HoldsTag(xlast.dump, OdbTag)
   /\ HoldsTag(OdbSegmentTail(xlast.dump), OdbEnd)) =>
    /\ xml.alloc
    /\ \E n \in 1..xml.fLength : xml.fBuffer[n] = NUL
    /\ Len(xml.fBuffer) = xml.fLength
    /\ CString(xml.fBuffer) = OdbSegment(xlast.dump)

============================================================================
